---- MODULE Spec2Model ----
(***************************************************************************)
(* Model of the offline corpus generator of sanskrit-backend               *)
(* (dataset/gen.py, dataset/mtc_gen.py): noun inflection, verb inflection  *)
(* and the combinatorial sentence synthesizer, and of the quiz services    *)
(* (app.py, servers/verb_game.py, servers/mtcGame.py,                      *)
(* servers/tense_game.py): distractors, explanations and /api/get-game.    *)
(*                                                                         *)
(* A Python str is a sequence of code points; each code point is one       *)
(* token.  A Python dict is a function whose DOMAIN is its key set, so a   *)
(* missing key is a key outside the DOMAIN.                                *)
(***************************************************************************)
EXTENDS Integers, Sequences, FiniteSets, TLC

VARIABLES
    conjugations,    \* gen.py:31   conjugations[tense][verb_class][key]
    declension_map,  \* gen.py:44   (gender, stem) -> declension table
    heap,            \* object store: address -> noun dict
    nouns,           \* gen.py:14   module-level list of noun objects
    verb,            \* argument of generate_sentence_for_verb
    tense,           \* argument of generate_sentence_for_verb
    sentence_data,   \* gen.py:117  the records emitted by the current run
    pairs,           \* mtc_gen.py:117  the pairs emitted by the current run
    script,          \* the program that was started: gen.py or mtc_gen.py
    pc,              \* position inside generate_sentence_for_verb
    loc,             \* loop cursors and locals of generate_sentence_for_verb
    call,            \* last call of a function: arguments, locals and result
    verbs,           \* app.py:61   the verb entries loaded by the service
    sentences,       \* app.py:59   the sentence records loaded by the service
    response,        \* the last response of /api/get-game
    db,              \* app.py:64-69  the connection and collection handles
    store,           \* the collections of the MongoDB database
    requests         \* the requests being handled, one frame per request

vars == <<conjugations, declension_map, heap, nouns, verb, tense,
          sentence_data, pairs, script, pc, loc, call,
          verbs, sentences, response, db, store, requests>>

-----------------------------------------------------------------------------
(* Bounds *)

\* largest number of noun records in nouns.json
MaxNouns == 2

-----------------------------------------------------------------------------
(* Code points *)

\* U+094D DEVANAGARI SIGN VIRAMA, the halant
HALANT == "virama"
\* U+093E DEVANAGARI VOWEL SIGN AA
AA_SIGN == "aa_sign"
\* the ASCII letter A used as placeholder inside suffixes
PLACEHOLDER == "A"
\* U+0020
SPACE == " "

\* the two pronoun roots
ASMAD == <<"a", "s", HALANT, "m", "d", HALANT>>
YUSHMAD == <<"y", "u", "sh", HALANT, "m", "d", HALANT>>

\* Python None in an object-valued slot
None == [py_none |-> TRUE]
\* Python None in a string-valued slot (gender, stem_type)
NoneStr == "None"

-----------------------------------------------------------------------------
(* Python primitives *)

\* str.endswith(c) for a single code point c
endswith(s, c) == Len(s) > 0 /\ s[Len(s)] = c

\* s[:-1]
drop_last(s) == SubSeq(s, 1, Len(s) - 1)

\* str.replace(c, "")
replace_all(s, c) == SelectSeq(s, LAMBDA x : x # c)

\* dict.get(k, default)
dict_get(d, k, default) == IF k \in DOMAIN d THEN d[k] ELSE default

\* d[k] = v on a dict
dict_set(d, k, v) == [x \in DOMAIN d \cup {k} |-> IF x = k THEN v ELSE d[x]]

EmptyDict == [x \in {} |-> x]

Numbers == <<"sg", "du", "pl">>
Persons == {"1", "2", "3"}
Tenses == {"present", "past", "future"}
Classes == {"1P", "4P", "6P", "10P"}
Roles == {"subject", "object"}

-----------------------------------------------------------------------------
(* Tables *)

role_to_vibhakti == [subject |-> "prathama", object |-> "dvitiya"]

number_index == [sg |-> 0, du |-> 1, pl |-> 2]

\* f"{person}_{number}"
person_number_key(person, number) == person \o "_" \o number

AllKeys == {person_number_key(p, Numbers[i]) : p \in Persons, i \in 1..3}

\* person/number ending of a conjugation suffix
Ending ==
    [k \in AllKeys |->
        CASE k = "1_sg" -> <<"m", "i">>
          [] k = "1_du" -> <<"v", "H">>
          [] k = "1_pl" -> <<"m", "H">>
          [] k = "2_sg" -> <<"s", "i">>
          [] k = "2_du" -> <<"th", "H">>
          [] k = "2_pl" -> <<"th">>
          [] k = "3_sg" -> <<"t", "i">>
          [] k = "3_du" -> <<"t", "H">>
          [] k = "3_pl" -> <<"n", "t", "i">>]

\* class sign in front of the ending; it carries the placeholder
ClassSign ==
    [c \in Classes |->
        CASE c = "1P" -> <<PLACEHOLDER>>
          [] c = "4P" -> <<"y", PLACEHOLDER>>
          [] c = "6P" -> <<PLACEHOLDER, PLACEHOLDER>>
          [] c = "10P" -> <<PLACEHOLDER, "y", PLACEHOLDER>>]

TenseSign ==
    [t \in Tenses |->
        CASE t = "present" -> <<>>
          [] t = "past" -> <<"t">>
          [] t = "future" -> <<"i", "sh", "y">>]

\* a conjugations.json with every tense, class and key
ConjFull ==
    [t \in Tenses |-> [c \in Classes |-> [k \in AllKeys |->
        ClassSign[c] \o TenseSign[t] \o Ending[k]]]]

\* a conjugations.json with gaps at each of the three levels: no future
\* tense, no 6P/10P class in the present, third person only in past 1P
ConjGaps ==
    [t \in {"present", "past"} |->
        IF t = "present"
        THEN [c \in {"1P", "4P"} |-> ConjFull[t][c]]
        ELSE [c \in {"1P", "4P"} |->
                IF c = "1P"
                THEN [k \in {"3_sg", "3_du", "3_pl"} |-> ConjFull[t][c][k]]
                ELSE ConjFull[t][c]]]

ConjTables == {ConjFull, ConjGaps}

\* the irregular paradigms of the two pronouns, case -> <<sg, du, pl>>
asmad_declension ==
    [prathama |-> << <<"a", "h", "m">>, <<"aa", "v", "aa", "m">>,
                     <<"v", "y", "m">> >>,
     dvitiya  |-> << <<"m", "aa", "m">>, <<"aa", "v", "aa", "m">>,
                     <<"a", "s", "m", "aa", "n">> >>]

yushmad_declension ==
    [prathama |-> << <<"t", "v", "m">>, <<"y", "u", "v", "aa", "m">>,
                     <<"y", "uu", "y", "m">> >>,
     dvitiya  |-> << <<"t", "v", "aa", "m">>, <<"y", "u", "v", "aa", "m">>,
                     <<"y", "u", "sh", "m", "aa", "n">> >>]

a_stem_masc_declension ==
    [prathama |-> << <<"H">>, <<"au">>, <<"aa", "H">> >>,
     dvitiya  |-> << <<"m">>, <<"au">>, <<"aa", "n">> >>]

aa_stem_fem_declension ==
    [prathama |-> << <<AA_SIGN>>, <<"e">>, <<AA_SIGN, "H">> >>,
     dvitiya  |-> << <<AA_SIGN, "m">>, <<"e">>, <<AA_SIGN, "H">> >>]

a_stem_neut_declension ==
    [prathama |-> << <<"m">>, <<"e">>, <<"aa", "n", "i">> >>,
     dvitiya  |-> << <<"m">>, <<"e">>, <<"aa", "n", "i">> >>]

DeclKeys == {<<"masc", "a">>, <<"fem", "aa">>, <<"neut", "a">>}

\* the declension map with three complete tables
DeclFull ==
    [g \in DeclKeys |->
        CASE g = <<"masc", "a">> -> a_stem_masc_declension
          [] g = <<"fem", "aa">> -> aa_stem_fem_declension
          [] g = <<"neut", "a">> -> a_stem_neut_declension]

\* a declension map whose masculine table has no object case and whose
\* neuter table is empty
DeclGaps ==
    [g \in DeclKeys |->
        CASE g = <<"masc", "a">> ->
                [c \in {"prathama"} |-> a_stem_masc_declension[c]]
          [] g = <<"fem", "aa">> -> aa_stem_fem_declension
          [] g = <<"neut", "a">> -> EmptyDict]

DeclWorlds == {DeclFull, DeclGaps}

-----------------------------------------------------------------------------
(* dataset/gen.py: the inflectors *)

\* s[:-1] when s ends with the long-a vowel sign (gen.py:81)
strip_long_a(root) == IF endswith(root, AA_SIGN) THEN drop_last(root) ELSE root

\* variant: the long-a sign is removed for every paradigm
noun_base_strip_always(root, gender, stem) == strip_long_a(root)

\* the root as it is joined to the suffix (gen.py:80-83)
noun_base(root, gender, stem) ==
    IF gender = "fem" /\ stem = "aa" THEN strip_long_a(root) ELSE root

\* variant: the regular declension table is consulted before the pronoun
\* paradigms
inflect_noun_table_first(noun, role) ==
    LET root == noun["root"]
        index == number_index[dict_get(noun, "number", "sg")]
        vibhakti == role_to_vibhakti[role]
        gs == <<dict_get(noun, "gender", NoneStr),
                dict_get(noun, "stem_type", NoneStr)>>
    IN  IF /\ gs \in DOMAIN declension_map
           /\ vibhakti \in DOMAIN declension_map[gs]
        THEN noun_base(root, gs[1], gs[2])
                \o declension_map[gs][vibhakti][index + 1]
        ELSE IF root = ASMAD THEN asmad_declension[vibhakti][index + 1]
        ELSE IF root = YUSHMAD THEN yushmad_declension[vibhakti][index + 1]
        ELSE root

\* variant: a table without the required case is read at the subject case
inflect_noun_case_default(noun, role) ==
    LET root == noun["root"]
        index == number_index[dict_get(noun, "number", "sg")]
        vibhakti == role_to_vibhakti[role]
        gs == <<dict_get(noun, "gender", NoneStr),
                dict_get(noun, "stem_type", NoneStr)>>
    IN  IF root = ASMAD THEN asmad_declension[vibhakti][index + 1]
        ELSE IF root = YUSHMAD THEN yushmad_declension[vibhakti][index + 1]
        ELSE IF gs \notin DOMAIN declension_map
                \/ DOMAIN declension_map[gs] = {}
             THEN root
        ELSE LET case == IF vibhakti \in DOMAIN declension_map[gs]
                         THEN vibhakti ELSE "prathama"
             IN  noun_base(root, gs[1], gs[2])
                    \o declension_map[gs][case][index + 1]

inflect_noun(noun, role) ==
    LET root == noun["root"]
        number == dict_get(noun, "number", "sg")
        index == number_index[number]
        vibhakti == role_to_vibhakti[role]
        gender == dict_get(noun, "gender", NoneStr)
        stem == dict_get(noun, "stem_type", NoneStr)
        has_table == /\ <<gender, stem>> \in DOMAIN declension_map
                     /\ DOMAIN declension_map[<<gender, stem>>] # {}
    IN  IF root = ASMAD THEN asmad_declension[vibhakti][index + 1]
        ELSE IF root = YUSHMAD THEN yushmad_declension[vibhakti][index + 1]
        ELSE IF \/ ~has_table
                \/ vibhakti \notin DOMAIN declension_map[<<gender, stem>>]
             THEN root
        ELSE LET suffix == declension_map[<<gender, stem>>][vibhakti][index + 1]
             IN  noun_base(root, gender, stem) \o suffix

\* the try block: conjugations[tense][verb_class][key] raises no KeyError
has_suffix(t, verb_class, key) ==
    /\ t \in DOMAIN conjugations
    /\ verb_class \in DOMAIN conjugations[t]
    /\ key \in DOMAIN conjugations[t][verb_class]

\* variant: the past tense keeps the root
select_stem_past_root(v, t) ==
    IF t = "future" THEN dict_get(v, "future_stem", v["root"])
    ELSE v["root"]

\* "Choose the appropriate stem"
select_stem(v, t) ==
    IF t = "future" THEN dict_get(v, "future_stem", v["root"])
    ELSE IF t = "past" THEN dict_get(v, "past_stem", v["root"])
    ELSE v["root"]

\* variant: the halant is kept for the whole present tense
drop_halant_tense_only(stem, t, verb_class) ==
    IF ~(t = "present")
    THEN (IF endswith(stem, HALANT) THEN drop_last(stem) ELSE stem)
    ELSE stem

\* "Drop halant for all EXCEPT present 4P"
drop_halant(stem, t, verb_class) ==
    IF ~(t = "present" /\ verb_class = "4P")
    THEN (IF endswith(stem, HALANT) THEN drop_last(stem) ELSE stem)
    ELSE stem

\* stem + suffix.replace("A", "")
attach_suffix(stem, suffix) == stem \o replace_all(suffix, PLACEHOLDER)

\* variant: a lookup miss returns the tense stem
get_verb_form_stem_fallback(v, person, number, t) ==
    LET key == person_number_key(person, number)
        verb_class == v["verb_class"]
    IN  IF ~has_suffix(t, verb_class, key) THEN select_stem(v, t)
        ELSE attach_suffix(drop_halant(select_stem(v, t), t, verb_class),
                           conjugations[t][verb_class][key])

get_verb_form(v, person, number, t) ==
    LET key == person_number_key(person, number)
        verb_class == v["verb_class"]
    IN  IF ~has_suffix(t, verb_class, key) THEN v["root"]
        ELSE LET suffix == conjugations[t][verb_class][key]
                 stem == drop_halant(select_stem(v, t), t, verb_class)
             IN  attach_suffix(stem, suffix)

-----------------------------------------------------------------------------
(* Inputs of the inflectors *)

\* marks an optional key that the JSON entry does not have
Unset == <<"unset">>

\* a dict with the optional key k present only when v is set
with_optional(d, k, v) == IF v = Unset THEN d ELSE dict_set(d, k, v)

\* a verb entry of verbs.json after the flattening loop (gen.py:37-41)
verb_entry(root, vclass, past, future, req_obj, subj_cls, obj_cls) ==
    with_optional(with_optional(with_optional(
        [root |-> root, meaning |-> <<"m">>, verb_class |-> vclass,
         requires_object |-> req_obj,
         allowed_subject_class |-> subj_cls],
        "allowed_object_class", obj_cls),
        "past_stem", past),
        "future_stem", future)

VerbRoots == { <<"g", "m", HALANT>>, <<"n", "ii">> }
PastStems == { Unset, <<"a", "g", "m", HALANT>>, <<"a", "n", "y">> }
FutureStems == { Unset, <<"g", "m", HALANT>>, <<"n", "e">> }

VerbInputs ==
    { verb_entry(r, c, ps, fs, FALSE, <<"animate">>, Unset) :
        r \in VerbRoots, c \in Classes, ps \in PastStems, fs \in FutureStems }

\* a noun record as built by the loading loop (gen.py:14-27)
noun_record(root, gender, stem_type, entity_classes, subj, obj) ==
    [root |-> root, gender |-> gender, stem_type |-> stem_type,
     entity_classes |-> entity_classes,
     usable_as_subject |-> subj, usable_as_object |-> obj]

NounRoots == { ASMAD, YUSHMAD, <<"b", "aa", "l">>, <<"l", "t", AA_SIGN>> }
Genders == { "masc", "fem", "neut", NoneStr }
StemTypes == { "a", "aa", "i", NoneStr }

BareNounInputs ==
    { noun_record(r, g, st, <<"animate">>, TRUE, TRUE) :
        r \in NounRoots, g \in Genders, st \in StemTypes }

\* nouns without a number and nouns whose number has been assigned
NounInputs ==
    BareNounInputs \cup
    { dict_set(n, "number", Numbers[i]) : n \in BareNounInputs, i \in 1..3 }

-----------------------------------------------------------------------------
(* The pure inflectors called on their own *)

NoCall == [fn |-> "none"]

\* no generator run is active
IdleLoc == [ci |-> 0, subjects |-> <<>>, si |-> 0, ni |-> 0,
            person |-> "", subject_form |-> <<>>, verb_form |-> <<>>,
            oci |-> 0, objs |-> <<>>, oi |-> 0, oni |-> 0]

GeneratorIdle ==
    /\ heap = <<>>
    /\ nouns = <<>>
    /\ verb = None
    /\ tense = "present"
    /\ sentence_data = <<>>
    /\ pairs = <<>>
    /\ script = "none"
    /\ pc = "idle"
    /\ loc = IdleLoc

\* db = None and the five collection handles = None (app.py:64-69)
NoDb == [connected |-> FALSE, collections |-> FALSE]

\* a database whose five collections hold no document
EmptyStore ==
    [sentences |-> <<>>, conjugations |-> <<>>, verbs |-> <<>>,
     matching_game |-> <<>>, users |-> <<>>]

\* no connection was made and no request is being handled
StoreIdle ==
    /\ db = NoDb
    /\ store = EmptyStore
    /\ requests = <<>>

\* no service has loaded anything
ServiceIdle ==
    /\ StoreIdle
    /\ verbs = <<>>
    /\ sentences = <<>>
    /\ response = None

GeneratorUnchanged ==
    UNCHANGED <<conjugations, declension_map, heap, nouns, verb, tense,
                sentence_data, pairs, script, pc, loc,
                verbs, sentences, response, db, store, requests>>

\* the arguments of one get_verb_form call, not yet evaluated
InitVerb ==
    /\ conjugations \in ConjTables
    /\ declension_map = DeclFull
    /\ GeneratorIdle
    /\ ServiceIdle
    /\ call \in { [fn |-> "get_verb_form", verb |-> v, person |-> person,
                   number |-> Numbers[i], tense |-> t,
                   done |-> FALSE, result |-> <<>>] :
                  v \in VerbInputs, person \in Persons, i \in 1..3,
                  t \in Tenses }

CallGetVerbForm ==
    /\ call.fn = "get_verb_form"
    /\ ~call.done
    /\ call' = [call EXCEPT
                  !.done = TRUE,
                  !.result = get_verb_form(call.verb, call.person,
                                           call.number, call.tense)]
    /\ GeneratorUnchanged

NextVerb == CallGetVerbForm

SpecVerb == InitVerb /\ [][NextVerb]_vars

\* the arguments of one inflect_noun call, not yet evaluated
InitNoun ==
    /\ conjugations = ConjFull
    /\ declension_map \in DeclWorlds
    /\ GeneratorIdle
    /\ ServiceIdle
    /\ call \in { [fn |-> "inflect_noun", noun |-> n, role |-> role,
                   done |-> FALSE, result |-> <<>>] :
                  n \in NounInputs, role \in Roles }

CallInflectNoun ==
    /\ call.fn = "inflect_noun"
    /\ ~call.done
    /\ call' = [call EXCEPT
                  !.done = TRUE,
                  !.result = inflect_noun(call.noun, call.role)]
    /\ GeneratorUnchanged

NextNoun == CallInflectNoun

SpecNoun == InitNoun /\ [][NextNoun]_vars

-----------------------------------------------------------------------------
(* dataset/gen.py: the sentence synthesizer *)

\* the nouns.json records the runs draw from, in file order
NounPool ==
    << noun_record(<<"b", "aa", "l">>, "masc", "a",
                   <<"animate", "human">>, TRUE, TRUE),
       noun_record(ASMAD, NoneStr, NoneStr, <<"human">>, TRUE, FALSE),
       noun_record(YUSHMAD, NoneStr, NoneStr, <<"human", "animate">>,
                   TRUE, TRUE),
       noun_record(<<"l", "t", AA_SIGN>>, "fem", "aa",
                   <<"thing", "animate">>, FALSE, TRUE),
       noun_record(<<"ph", "l">>, "neut", "a",
                   <<"thing", "food">>, FALSE, TRUE),
       noun_record(<<"m", "u", "n", "i">>, "masc", "i",
                   <<"human">>, TRUE, TRUE) >>

\* the sub-list of NounPool at the positions in S, in file order
RECURSIVE pool_sublist(_, _)
pool_sublist(S, i) ==
    IF i > Len(NounPool) THEN <<>>
    ELSE (IF i \in S THEN <<NounPool[i]>> ELSE <<>>) \o pool_sublist(S, i + 1)

NounLists ==
    { pool_sublist(S, 1) :
        S \in { T \in SUBSET (1..Len(NounPool)) : Cardinality(T) <= MaxNouns } }

\* the verbs.json entries the runs are started with
GenVerbs ==
    { verb_entry(<<"g", "m", HALANT>>, "1P", <<"a", "g", "m", HALANT>>, Unset,
                 FALSE, <<"animate">>, Unset),
      verb_entry(<<"n", "sh", HALANT>>, "4P", Unset, Unset,
                 FALSE, <<"animate", "human">>, <<>>),
      verb_entry(<<"kh", "aa", "d", HALANT>>, "1P", Unset, <<"kh", "aa", "d">>,
                 TRUE, <<"human">>, <<"food", "thing">>),
      verb_entry(<<"l", "i", "kh">>, "6P", Unset, Unset,
                 TRUE, <<"human", "animate">>, <<"thing", "animate">>),
      verb_entry(<<"c", "u", "r", HALANT>>, "10P", Unset, Unset,
                 TRUE, <<"animate">>, Unset) }

\* variant: the usable_as_subject / usable_as_object flag is not consulted
noun_is_valid_any_role(n, entity_class, role) ==
    \E i \in DOMAIN n["entity_classes"] : n["entity_classes"][i] = entity_class

\* entity_class in n["entity_classes"] and n.get(key, False)
noun_is_valid(n, entity_class, role) ==
    LET key == IF role = "subject" THEN "usable_as_subject"
               ELSE "usable_as_object"
    IN  /\ \E i \in DOMAIN n["entity_classes"] :
              n["entity_classes"][i] = entity_class
        /\ dict_get(n, key, FALSE)

\* the addresses of the module-level nouns that pass the filter
valid_addresses(h, entity_class, role) ==
    SelectSeq(nouns, LAMBDA a : noun_is_valid(h[a], entity_class, role))

\* the first free address of the object store
fresh(h) ==
    IF DOMAIN h = {} THEN 1
    ELSE 1 + CHOOSE a \in DOMAIN h : \A b \in DOMAIN h : b <= a

\* variant: the list holds the module-level records themselves
get_valid_nouns_no_copy(h, entity_class, role) ==
    [heap |-> h, list |-> valid_addresses(h, entity_class, role)]

\* get_valid_nouns: a list of fresh shallow copies n.copy(); heap is the
\* object store after the allocation, list the addresses of the copies
get_valid_nouns(h, entity_class, role) ==
    LET src == valid_addresses(h, entity_class, role)
        base == fresh(h) - 1
        new == { base + j : j \in 1..Len(src) }
    IN  [heap |-> [a \in DOMAIN h \cup new |->
                      IF a \in new THEN h[src[a - base]] ELSE h[a]],
         list |-> [j \in 1..Len(src) |-> base + j]]

\* the elements of a list
list_range(l) == { l[j] : j \in DOMAIN l }

\* the object store without the objects that are no longer referenced
collect(h, live) == [a \in (DOMAIN h) \cap live |-> h[a]]

\* variant: only the first-person pronoun is recognised
person_of_first_only(root) == IF root = ASMAD THEN "1" ELSE "3"

\* {"asmad": "1", "yushmad": "2"}.get(subject["root"], "3")
person_of(root) ==
    IF root = ASMAD THEN "1" ELSE IF root = YUSHMAD THEN "2" ELSE "3"

\* f"{subject_form} {verb_form}"
join2(a, b) == a \o <<SPACE>> \o b

\* variant: the verb is placed before the object
join3_verb_second(a, b, c) == a \o <<SPACE>> \o c \o <<SPACE>> \o b

\* f"{subject_form} {object_form} {verb_form}"
join3(a, b, c) == a \o <<SPACE>> \o b \o <<SPACE>> \o c

subject_part(subject, number, person, form) ==
    [root |-> subject["root"], form |-> form, number |-> number,
     person |-> person, gender |-> subject["gender"],
     stem |-> subject["stem_type"]]

object_part(obj, obj_number, form) ==
    [root |-> obj["root"], form |-> form, number |-> obj_number,
     person |-> "3", gender |-> obj["gender"], stem |-> obj["stem_type"]]

verb_part(v, form, person, number) ==
    [root |-> v["root"], form |-> form, person |-> person,
     number |-> number, class |-> v["verb_class"],
     meaning |-> dict_get(v, "meaning", <<>>)]

Init ==
    /\ conjugations \in ConjTables
    /\ declension_map = DeclFull
    /\ \E l \in NounLists :
          /\ heap = [a \in 1..Len(l) |-> l[a]]
          /\ nouns = [a \in 1..Len(l) |-> a]
    /\ verb = None
    /\ tense = "present"
    /\ sentence_data = <<>>
    /\ pairs = <<>>
    /\ script \in {"gen", "mtc_gen"}
    /\ pc = "idle"
    /\ loc = IdleLoc
    /\ call = NoCall
    /\ ServiceIdle

Tables == <<conjugations, declension_map, nouns, script, call,
            verbs, sentences, response, db, store, requests>>

\* generate_sentence_for_verb(verb, tense) is called (gen.py:116-120)
StartRun(v, t) ==
    /\ script = "gen"
    /\ pc \in {"idle", "done"}
    /\ verb' = v
    /\ tense' = t
    /\ sentence_data' = <<>>
    /\ loc' = [IdleLoc EXCEPT !.ci = 1]
    /\ pc' = "subj_class"
    /\ UNCHANGED <<Tables, heap, pairs>>

\* for subj_class in subject_classes (gen.py:122-123), or return
NextSubjectClass ==
    /\ pc = "subj_class"
    /\ IF loc.ci > Len(verb["allowed_subject_class"])
       THEN /\ pc' = "done"
            /\ loc' = IdleLoc
            /\ heap' = collect(heap, list_range(nouns))
       ELSE LET r == get_valid_nouns(heap,
                        verb["allowed_subject_class"][loc.ci], "subject")
            IN  /\ heap' = r.heap
                /\ loc' = [loc EXCEPT !.subjects = r.list, !.si = 1]
                /\ pc' = "subject"
    /\ UNCHANGED <<Tables, verb, tense, sentence_data, pairs>>

\* for subject in get_valid_nouns(...) (gen.py:123)
NextSubject ==
    /\ pc = "subject"
    /\ IF loc.si > Len(loc.subjects)
       THEN /\ loc' = [loc EXCEPT !.ci = @ + 1, !.subjects = <<>>, !.si = 0]
            /\ heap' = collect(heap, list_range(nouns))
            /\ pc' = "subj_class"
       ELSE /\ loc' = [loc EXCEPT !.ni = 1]
            /\ heap' = heap
            /\ pc' = "number"
    /\ UNCHANGED <<Tables, verb, tense, sentence_data, pairs>>

\* for number in ["sg", "du", "pl"] and the subject-only record
\* (gen.py:124-130, 165-187)
SubjectNumber ==
    /\ pc = "number"
    /\ IF loc.ni > 3
       THEN /\ loc' = [loc EXCEPT !.si = @ + 1, !.ni = 0]
            /\ pc' = "subject"
            /\ UNCHANGED <<heap, sentence_data>>
       ELSE LET a == loc.subjects[loc.si]
                number == Numbers[loc.ni]
                subject == dict_set(heap[a], "number", number)
                person == person_of(subject["root"])
                subject_form == inflect_noun(subject, "subject")
                verb_form == get_verb_form(verb, person, number, tense)
                locals == [loc EXCEPT !.person = person,
                                      !.subject_form = subject_form,
                                      !.verb_form = verb_form]
            IN  /\ heap' = [heap EXCEPT ![a] = subject]
                /\ IF verb["requires_object"]
                   THEN /\ loc' = [locals EXCEPT !.oci = 1]
                        /\ pc' = "obj_class"
                        /\ sentence_data' = sentence_data
                   ELSE /\ sentence_data' = Append(sentence_data,
                              [sentence |-> join2(subject_form, verb_form),
                               tense |-> tense,
                               subject |-> subject_part(subject, number,
                                                        person, subject_form),
                               object |-> None,
                               verb |-> verb_part(verb, verb_form, person,
                                                  number)])
                        /\ loc' = [locals EXCEPT !.ni = @ + 1]
                        /\ pc' = "number"
    /\ UNCHANGED <<Tables, verb, tense, pairs>>

\* for obj_class in object_classes (gen.py:131-132)
NextObjectClass ==
    /\ pc = "obj_class"
    /\ LET object_classes == dict_get(verb, "allowed_object_class", <<>>)
       IN  IF loc.oci > Len(object_classes)
           THEN /\ loc' = [loc EXCEPT !.ni = @ + 1, !.oci = 0]
                /\ heap' = heap
                /\ pc' = "number"
           ELSE LET r == get_valid_nouns(heap, object_classes[loc.oci],
                                         "object")
                IN  /\ heap' = r.heap
                    /\ loc' = [loc EXCEPT !.objs = r.list, !.oi = 1]
                    /\ pc' = "object"
    /\ UNCHANGED <<Tables, verb, tense, sentence_data, pairs>>

\* for obj in get_valid_nouns(...) (gen.py:132)
NextObject ==
    /\ pc = "object"
    /\ IF loc.oi > Len(loc.objs)
       THEN /\ loc' = [loc EXCEPT !.oci = @ + 1, !.objs = <<>>, !.oi = 0]
            /\ heap' = collect(heap, list_range(nouns)
                                        \cup list_range(loc.subjects))
            /\ pc' = "obj_class"
       ELSE /\ loc' = [loc EXCEPT !.oni = 1]
            /\ heap' = heap
            /\ pc' = "obj_number"
    /\ UNCHANGED <<Tables, verb, tense, sentence_data, pairs>>

\* for obj_number in ["sg", "du", "pl"] and the record with an object
\* (gen.py:133-164)
ObjectNumber ==
    /\ pc = "obj_number"
    /\ IF loc.oni > 3
       THEN /\ loc' = [loc EXCEPT !.oi = @ + 1, !.oni = 0]
            /\ pc' = "object"
            /\ UNCHANGED <<heap, sentence_data>>
       ELSE LET a == loc.objs[loc.oi]
                obj_number == Numbers[loc.oni]
                obj == dict_set(heap[a], "number", obj_number)
                after == [heap EXCEPT ![a] = obj]
                subject == after[loc.subjects[loc.si]]
                number == Numbers[loc.ni]
                object_form == inflect_noun(obj, "object")
            IN  /\ heap' = after
                /\ sentence_data' = Append(sentence_data,
                      [sentence |-> join3(loc.subject_form, object_form,
                                          loc.verb_form),
                       tense |-> tense,
                       subject |-> subject_part(subject, number, loc.person,
                                                loc.subject_form),
                       object |-> object_part(obj, obj_number, object_form),
                       verb |-> verb_part(verb, loc.verb_form, loc.person,
                                          number)])
                /\ loc' = [loc EXCEPT !.oni = @ + 1]
                /\ pc' = "obj_number"
    /\ UNCHANGED <<Tables, verb, tense, pairs>>

\* generate_subject_verb_pairs(verb, tense) is called (mtc_gen.py:116-118)
StartPairs(v, t) ==
    /\ script = "mtc_gen"
    /\ pc \in {"idle", "done"}
    /\ verb' = v
    /\ tense' = t
    /\ pairs' = <<>>
    /\ loc' = [IdleLoc EXCEPT !.ci = 1]
    /\ pc' = "pair_class"
    /\ UNCHANGED <<Tables, heap, sentence_data>>

\* for subj_class in subject_classes (mtc_gen.py:120-121), or return
PairsNextClass ==
    /\ pc = "pair_class"
    /\ IF loc.ci > Len(verb["allowed_subject_class"])
       THEN /\ pc' = "done"
            /\ loc' = IdleLoc
            /\ heap' = collect(heap, list_range(nouns))
       ELSE LET r == get_valid_nouns(heap,
                        verb["allowed_subject_class"][loc.ci], "subject")
            IN  /\ heap' = r.heap
                /\ loc' = [loc EXCEPT !.subjects = r.list, !.si = 1]
                /\ pc' = "pair_subject"
    /\ UNCHANGED <<Tables, verb, tense, sentence_data, pairs>>

\* for subject in get_valid_nouns(...) (mtc_gen.py:121)
PairsNextSubject ==
    /\ pc = "pair_subject"
    /\ IF loc.si > Len(loc.subjects)
       THEN /\ loc' = [loc EXCEPT !.ci = @ + 1, !.subjects = <<>>, !.si = 0]
            /\ heap' = collect(heap, list_range(nouns))
            /\ pc' = "pair_class"
       ELSE /\ loc' = [loc EXCEPT !.ni = 1]
            /\ heap' = heap
            /\ pc' = "pair_number"
    /\ UNCHANGED <<Tables, verb, tense, sentence_data, pairs>>

\* for number in ["sg", "du", "pl"] and the pair (mtc_gen.py:122-146)
PairsNumber ==
    /\ pc = "pair_number"
    /\ IF loc.ni > 3
       THEN /\ loc' = [loc EXCEPT !.si = @ + 1, !.ni = 0]
            /\ pc' = "pair_subject"
            /\ UNCHANGED <<heap, pairs>>
       ELSE LET a == loc.subjects[loc.si]
                number == Numbers[loc.ni]
                subject == dict_set(heap[a], "number", number)
                person == person_of(subject["root"])
                subject_form == inflect_noun(subject, "subject")
                verb_form == get_verb_form(verb, person, number, tense)
            IN  /\ heap' = [heap EXCEPT ![a] = subject]
                /\ pairs' = Append(pairs,
                      [subject |-> subject_part(subject, number, person,
                                                subject_form),
                       verb |-> dict_set(verb_part(verb, verb_form, person,
                                                   number),
                                         "tense", tense)])
                /\ loc' = [loc EXCEPT !.person = person,
                                      !.subject_form = subject_form,
                                      !.verb_form = verb_form,
                                      !.ni = @ + 1]
                /\ pc' = "pair_number"
    /\ UNCHANGED <<Tables, verb, tense, sentence_data>>

Next ==
    \/ \E v \in GenVerbs, t \in Tenses : StartRun(v, t)
    \/ NextSubjectClass
    \/ NextSubject
    \/ SubjectNumber
    \/ NextObjectClass
    \/ NextObject
    \/ ObjectNumber
    \/ \E v \in GenVerbs, t \in Tenses : StartPairs(v, t)
    \/ PairsNextClass
    \/ PairsNextSubject
    \/ PairsNumber

Spec == Init /\ [][Next]_vars

-----------------------------------------------------------------------------
(* Properties of get_verb_form, checked under SpecVerb *)

VerbCallDone == call.fn = "get_verb_form" /\ call.done

CallKey == person_number_key(call.person, call.number)

CallHasSuffix ==
    /\ call.tense \in DOMAIN conjugations
    /\ call.verb.verb_class \in DOMAIN conjugations[call.tense]
    /\ CallKey \in DOMAIN conjugations[call.tense][call.verb.verb_class]

CallSuffix == conjugations[call.tense][call.verb.verb_class][CallKey]

\* the suffix with every placeholder removed
RECURSIVE WithoutPlaceholder(_)
WithoutPlaceholder(s) ==
    IF s = <<>> THEN <<>>
    ELSE IF Head(s) = PLACEHOLDER THEN WithoutPlaceholder(Tail(s))
    ELSE <<Head(s)>> \o WithoutPlaceholder(Tail(s))

\* the stem named by the tense, before any trimming
CallStem ==
    CASE call.tense = "future" ->
            IF "future_stem" \in DOMAIN call.verb
            THEN call.verb.future_stem ELSE call.verb.root
      [] call.tense = "past" ->
            IF "past_stem" \in DOMAIN call.verb
            THEN call.verb.past_stem ELSE call.verb.root
      [] OTHER -> call.verb.root

CallPresent4P == call.tense = "present" /\ call.verb.verb_class = "4P"

CallStemEndsInHalant ==
    Len(CallStem) > 0 /\ CallStem[Len(CallStem)] = HALANT

\* C1: when a suffix exists and the selected stem ends in the halant, the
\* result keeps the halant in front of the suffix exactly for present tense
\* with class 4P, and drops it for every other (tense, class) pair.
C1_HalantDropRule ==
    (VerbCallDone /\ CallHasSuffix /\ CallStemEndsInHalant) =>
        IF CallPresent4P
        THEN call.result = CallStem \o WithoutPlaceholder(CallSuffix)
        ELSE call.result = SubSeq(CallStem, 1, Len(CallStem) - 1)
                              \o WithoutPlaceholder(CallSuffix)

\* present 1P strips the halant of a stem that ends in it
C1_Witness ==
    /\ VerbCallDone /\ CallHasSuffix /\ CallStemEndsInHalant
    /\ call.tense = "present" /\ call.verb.verb_class = "1P"
    /\ call.result = SubSeq(CallStem, 1, Len(CallStem) - 1)
                        \o WithoutPlaceholder(CallSuffix)

\* C2: when a suffix exists the result is the tense stem (future_stem,
\* past_stem or root, the root standing in for an unset override), trimmed
\* by the halant rule, followed by the suffix without any placeholder.
C2_StemAndConcatenation ==
    (VerbCallDone /\ CallHasSuffix) =>
        LET trimmed == IF CallStemEndsInHalant /\ ~CallPresent4P
                       THEN SubSeq(CallStem, 1, Len(CallStem) - 1)
                       ELSE CallStem
        IN  call.result = trimmed \o WithoutPlaceholder(CallSuffix)

\* a past-tense call on a verb with a past_stem different from its root
C2_Witness ==
    /\ VerbCallDone /\ CallHasSuffix
    /\ call.tense = "past"
    /\ "past_stem" \in DOMAIN call.verb
    /\ call.verb.past_stem # call.verb.root
    /\ Len(WithoutPlaceholder(CallSuffix)) < Len(CallSuffix)
    /\ call.result # call.verb.root

\* C3: when tense, class or key is missing from the conjugation table the
\* result is the plain root of the verb.
C3_MissReturnsRoot ==
    (VerbCallDone /\ ~CallHasSuffix) => call.result = call.verb.root

\* the class exists but the key does not, on a verb with a past stem
C3_Witness ==
    /\ VerbCallDone
    /\ call.tense \in DOMAIN conjugations
    /\ call.verb.verb_class \in DOMAIN conjugations[call.tense]
    /\ ~CallHasSuffix
    /\ call.tense = "past"
    /\ "past_stem" \in DOMAIN call.verb
    /\ call.result = call.verb.root
    /\ call.result[Len(call.result)] = HALANT

-----------------------------------------------------------------------------
(* Properties of inflect_noun, checked under SpecNoun *)

NounCallDone == call.fn = "inflect_noun" /\ call.done

CallIsPronoun == call.noun.root \in {ASMAD, YUSHMAD}

CallCase == IF call.role = "subject" THEN "prathama" ELSE "dvitiya"

\* position of the noun's number in <<sg, du, pl>>; sg without a number
CallNumberPos ==
    IF "number" \notin DOMAIN call.noun THEN 1
    ELSE CHOOSE i \in 1..3 : Numbers[i] = call.noun.number

CallDeclKey == <<call.noun.gender, call.noun.stem_type>>

\* a declension table exists for the noun and holds the case of the role
CallHasDeclension ==
    /\ CallDeclKey \in DOMAIN declension_map
    /\ CallCase \in DOMAIN declension_map[CallDeclKey]

\* C4: for the two pronoun roots the result is the entry of the pronoun's
\* own paradigm at the role's case and the number's index, whatever the
\* gender and stem_type of the noun record are.
C4_IrregularPronouns ==
    (NounCallDone /\ CallIsPronoun) =>
        call.result =
            (IF call.noun.root = ASMAD THEN asmad_declension
             ELSE yushmad_declension)[CallCase][CallNumberPos]

\* a pronoun record that names a regular declension table
C4_Witness ==
    /\ NounCallDone
    /\ call.noun.root = YUSHMAD
    /\ CallHasDeclension
    /\ "number" \in DOMAIN call.noun /\ call.noun.number = "pl"
    /\ call.role = "object"
    /\ call.result = yushmad_declension["dvitiya"][3]

\* C5: a non-pronoun noun without a declension table, or whose table lacks
\* the case of the role, is returned as its bare root for every number.
C5_SilentFallback ==
    (NounCallDone /\ ~CallIsPronoun /\ ~CallHasDeclension) =>
        call.result = call.noun.root

\* the table exists but has no object case
C5_Witness ==
    /\ NounCallDone /\ ~CallIsPronoun
    /\ CallDeclKey \in DOMAIN declension_map
    /\ DOMAIN declension_map[CallDeclKey] # {}
    /\ CallCase \notin DOMAIN declension_map[CallDeclKey]
    /\ "number" \in DOMAIN call.noun /\ call.noun.number = "du"
    /\ call.result = call.noun.root

\* C6: a non-pronoun noun with a table and a case entry yields root +
\* suffix at the number index; the root loses a trailing long-a sign only
\* in the feminine long-a paradigm.
C6_RegularInflection ==
    (NounCallDone /\ ~CallIsPronoun /\ CallHasDeclension) =>
        LET suffix == declension_map[CallDeclKey][CallCase][CallNumberPos]
            root == call.noun.root
            base == IF /\ CallDeclKey = <<"fem", "aa">>
                       /\ Len(root) > 0 /\ root[Len(root)] = AA_SIGN
                    THEN SubSeq(root, 1, Len(root) - 1)
                    ELSE root
        IN  call.result = base \o suffix

\* a masculine noun whose root ends in the long-a sign keeps it
C6_Witness ==
    /\ NounCallDone /\ ~CallIsPronoun /\ CallHasDeclension
    /\ CallDeclKey = <<"masc", "a">>
    /\ call.noun.root[Len(call.noun.root)] = AA_SIGN
    /\ "number" \in DOMAIN call.noun /\ call.noun.number = "pl"
    /\ call.result =
          call.noun.root \o declension_map[CallDeclKey][CallCase][3]

-----------------------------------------------------------------------------
(* Properties of the synthesizer, checked under Spec *)

ModuleNouns == { nouns[i] : i \in DOMAIN nouns }

\* the module-level noun records carry no number
NounsHaveNoNumber ==
    \A a \in ModuleNouns : "number" \notin DOMAIN heap[a]

\* a step leaves the noun list and every module-level record as they were
NounsKept ==
    /\ nouns' = nouns
    /\ \A a \in ModuleNouns : a \in DOMAIN heap' /\ heap'[a] = heap[a]

\* a step changes no live object except the copy the loop is assigning to
OnlyLoopCopyChanges ==
    \A a \in (DOMAIN heap) \cap (DOMAIN heap') :
        heap'[a] # heap[a] =>
            \/ pc \in {"number", "pair_number"} /\ a = loc.subjects[loc.si]
            \/ pc = "obj_number" /\ a = loc.objs[loc.oi]

\* C7: assigning a number to a copy returned by get_valid_nouns never
\* changes the module-level noun records, which never carry a number, nor
\* any other copy, over any number of runs.
C7_NoHiddenMutation ==
    /\ []NounsHaveNoNumber
    /\ [][NounsKept /\ OnlyLoopCopyChanges]_vars

\* two live copies of one noun carry different numbers while the
\* module-level record of that noun carries none
C7_Witness ==
    /\ pc = "obj_number"
    /\ \E a, b \in (DOMAIN heap) \ ModuleNouns :
          /\ a # b
          /\ heap[a].root = heap[b].root
          /\ "number" \in DOMAIN heap[a] /\ "number" \in DOMAIN heap[b]
          /\ heap[a].number # heap[b].number
          /\ \E m \in ModuleNouns :
                /\ heap[m].root = heap[a].root
                /\ "number" \notin DOMAIN heap[m]

\* the noun qualifies for the class in the role
Qualifies(n, class, role) ==
    /\ class \in { n.entity_classes[j] : j \in DOMAIN n.entity_classes }
    /\ IF role = "subject" THEN n.usable_as_subject ELSE n.usable_as_object

SubjectClasses == verb.allowed_subject_class

ObjectClasses ==
    IF "allowed_object_class" \in DOMAIN verb
    THEN verb.allowed_object_class ELSE <<>>

\* the (class position, noun) pairs the loops visit
SubjectSlots ==
    { <<c, a>> \in (DOMAIN SubjectClasses) \X ModuleNouns :
        Qualifies(heap[a], SubjectClasses[c], "subject") }

ObjectSlots ==
    { <<c, a>> \in (DOMAIN ObjectClasses) \X ModuleNouns :
        Qualifies(heap[a], ObjectClasses[c], "object") }

\* the nouns that qualify for at least one allowed class
QualifyingSubjects == { s[2] : s \in SubjectSlots }

QualifyingObjects == { s[2] : s \in ObjectSlots }

\* the emitted records about noun a as subject in the given number
RecordsOf(a, number) ==
    { k \in DOMAIN sentence_data :
        /\ sentence_data[k].subject.root = heap[a].root
        /\ sentence_data[k].subject.gender = heap[a].gender
        /\ sentence_data[k].subject.number = number }

IntransitiveDone ==
    script = "gen" /\ pc = "done" /\ ~verb.requires_object

TransitiveDone ==
    script = "gen" /\ pc = "done" /\ verb.requires_object

SubjectVerbSentences ==
    \A k \in DOMAIN sentence_data :
        /\ sentence_data[k].object = None
        /\ sentence_data[k].sentence =
              sentence_data[k].subject.form \o <<SPACE>>
                 \o sentence_data[k].verb.form

SubjectObjectVerbSentences ==
    \A k \in DOMAIN sentence_data :
        /\ sentence_data[k].object # None
        /\ sentence_data[k].sentence =
              sentence_data[k].subject.form \o <<SPACE>>
                 \o sentence_data[k].object.form \o <<SPACE>>
                 \o sentence_data[k].verb.form

\* C8 as stated: an intransitive run emits exactly one record per
\* qualifying subject noun and number, 3 records per subject, each without
\* object and with sentence = subject form, space, verb form.
C8_OneRecordPerSubjectNumber ==
    IntransitiveDone =>
        /\ \A a \in ModuleNouns, i \in 1..3 :
              Cardinality(RecordsOf(a, Numbers[i])) =
                 IF a \in QualifyingSubjects THEN 1 ELSE 0
        /\ Len(sentence_data) = 3 * Cardinality(QualifyingSubjects)
        /\ SubjectVerbSentences

\* C8 amended: an intransitive run emits, for every number, one record per
\* (entry of allowed_subject_class, noun qualifying for that entry); a noun
\* that qualifies for k entries gets k records per number; each record has
\* no object and sentence = subject form, space, verb form.
C8_OneRecordPerClassSubjectNumber ==
    IntransitiveDone =>
        /\ \A a \in ModuleNouns, i \in 1..3 :
              Cardinality(RecordsOf(a, Numbers[i])) =
                 Cardinality({ s \in SubjectSlots : s[2] = a })
        /\ Len(sentence_data) = 3 * Cardinality(SubjectSlots)
        /\ SubjectVerbSentences

\* a noun that qualifies under two allowed classes has two records per number
C8_Witness ==
    /\ IntransitiveDone
    /\ \E a \in ModuleNouns :
          /\ Cardinality({ s \in SubjectSlots : s[2] = a }) = 2
          /\ Cardinality(RecordsOf(a, "du")) = 2
    /\ \E a \in ModuleNouns : a \notin QualifyingSubjects

\* C9 as stated: a transitive run emits (qualifying subjects x 3) x
\* (qualifying objects x 3) records, each sentence being subject form,
\* object form, verb form joined by single spaces.
C9_SubjectsTimesObjects ==
    TransitiveDone =>
        /\ Len(sentence_data) =
              (3 * Cardinality(QualifyingSubjects))
                 * (3 * Cardinality(QualifyingObjects))
        /\ SubjectObjectVerbSentences

\* C9 amended: the count is (subject slots x 3) x (object slots x 3), a
\* slot being an (entry of the allowed class list, noun qualifying for that
\* entry) pair, so a noun counts once per allowed class it matches.
C9_SlotsTimesSlots ==
    TransitiveDone =>
        /\ Len(sentence_data) =
              (3 * Cardinality(SubjectSlots)) * (3 * Cardinality(ObjectSlots))
        /\ SubjectObjectVerbSentences

\* one subject and one object, each matching one allowed class: 9 records
C9_Witness ==
    /\ TransitiveDone
    /\ Cardinality(SubjectSlots) = 1
    /\ Cardinality(ObjectSlots) = 1
    /\ Len(sentence_data) = 9

ExpectedPerson(root) ==
    CASE root = ASMAD -> "1"
      [] root = YUSHMAD -> "2"
      [] OTHER -> "3"

\* C10: in every emitted sentence record and subject-verb pair the subject
\* person is 1 / 2 for the two pronoun roots and 3 otherwise, the verb has
\* the person and number of the subject, and an object has person 3.
C10_PersonAgreement ==
    /\ \A k \in DOMAIN sentence_data :
          LET r == sentence_data[k]
          IN  /\ r.subject.person = ExpectedPerson(r.subject.root)
              /\ r.verb.person = r.subject.person
              /\ r.verb.number = r.subject.number
              /\ r.object # None => r.object.person = "3"
    /\ \A k \in DOMAIN pairs :
          LET r == pairs[k]
          IN  /\ r.subject.person = ExpectedPerson(r.subject.root)
              /\ r.verb.person = r.subject.person
              /\ r.verb.number = r.subject.number

\* a second-person subject with a pronoun object
C10_Witness ==
    \E k \in DOMAIN sentence_data :
        /\ sentence_data[k].subject.root = YUSHMAD
        /\ sentence_data[k].subject.person = "2"
        /\ sentence_data[k].verb.person = "2"
        /\ sentence_data[k].verb.number = "pl"
        /\ sentence_data[k].object # None
        /\ sentence_data[k].object.root = YUSHMAD
        /\ sentence_data[k].object.person = "3"

-----------------------------------------------------------------------------
(* dataset/mtc_gen.py: the matching-pair aggregation *)

\* largest number of pairs handed to create_matching_game_data
MaxPairs == 4

\* Python None in a str-valued slot whose strings are code point sequences
PyNoneStr == <<"py_none">>

\* bool(x) of a str or None
truthy(x) == x # PyNoneStr /\ x # <<>>

\* variant: the key leaves out the subject root
matching_key_no_subject(subj_root, verb_root, t) ==
    verb_root \o <<"_">> \o <<t>>

\* f"{subj_root}_{verb_root}_{tense}"
matching_key(subj_root, verb_root, t) ==
    subj_root \o <<"_">> \o verb_root \o <<"_">> \o <<t>>

\* the entry created for a key that is not in game_data (mtc_gen.py:161-168)
new_entry(pair) ==
    [subject_root |-> pair["subject"]["root"],
     verb_root |-> pair["verb"]["root"],
     tense |-> pair["verb"]["tense"],
     subject_forms |-> [sg |-> PyNoneStr, du |-> PyNoneStr, pl |-> PyNoneStr],
     verb_forms |-> [sg |-> PyNoneStr, du |-> PyNoneStr, pl |-> PyNoneStr],
     meaning |-> pair["verb"]["meaning"]]

\* game_data is a dict in insertion order: a list of <<key, entry>>
key_position(game_data, key) ==
    IF \E i \in DOMAIN game_data : game_data[i][1] = key
    THEN CHOOSE i \in DOMAIN game_data : game_data[i][1] = key
    ELSE 0

\* one iteration of the loop over pairs (mtc_gen.py:153-172)
add_pair(game_data, pair) ==
    LET key == matching_key(pair["subject"]["root"], pair["verb"]["root"],
                            pair["verb"]["tense"])
        known == key_position(game_data, key) # 0
        gd == IF known THEN game_data
              ELSE Append(game_data, <<key, new_entry(pair)>>)
        i == key_position(gd, key)
        number == pair["subject"]["number"]
        entry == gd[i][2]
        filled == [entry EXCEPT
                     !.subject_forms = dict_set(@, number,
                                                pair["subject"]["form"]),
                     !.verb_forms = dict_set(@, number, pair["verb"]["form"])]
    IN  [gd EXCEPT ![i] = <<key, filled>>]

RECURSIVE aggregate(_, _)
aggregate(ps, game_data) ==
    IF ps = <<>> THEN game_data
    ELSE aggregate(Tail(ps), add_pair(game_data, Head(ps)))

\* all(d.values())
all_values(d) == \A k \in DOMAIN d : truthy(d[k])

\* variant: only the subject forms are tested
is_complete_subject_only(entry) == all_values(entry["subject_forms"])

\* the filter of the final loop (mtc_gen.py:177)
is_complete(entry) ==
    all_values(entry["subject_forms"]) /\ all_values(entry["verb_forms"])

RECURSIVE complete_entries(_)
complete_entries(game_data) ==
    IF game_data = <<>> THEN <<>>
    ELSE (IF is_complete(Head(game_data)[2]) THEN <<Head(game_data)[2]>>
          ELSE <<>>) \o complete_entries(Tail(game_data))

create_matching_game_data(ps) == complete_entries(aggregate(ps, <<>>))

\* a subject-verb pair as generate_subject_verb_pairs builds it
pair_record(subj_root, verb_root, t, number, subj_form, verb_form) ==
    [subject |-> [root |-> subj_root, form |-> subj_form, number |-> number,
                  person |-> "3", gender |-> "masc", stem |-> "a"],
     verb |-> [root |-> verb_root, form |-> verb_form, person |-> "3",
               number |-> number, class |-> "1P", meaning |-> <<"m">>,
               tense |-> t]]

\* pairs of two subjects with one verb; a verb form may be empty
PairPool ==
    { pair_record(sr, <<"g", "m", HALANT>>, "present", Numbers[i],
                  sr \o <<"s", Numbers[i]>>,
                  IF has_verb THEN <<"g", "m", Numbers[i]>> ELSE <<>>) :
        sr \in { <<"b", "aa", "l">>, <<"m", "u", "n", "i">> },
        i \in 1..3,
        has_verb \in BOOLEAN }

RECURSIVE lists_up_to(_, _)
lists_up_to(S, n) ==
    IF n = 0 THEN { <<>> }
    ELSE LET shorter == lists_up_to(S, n - 1)
         IN  shorter \cup { Append(l, x) : l \in shorter, x \in S }

\* the arguments of one create_matching_game_data call, not yet evaluated
InitMatch ==
    /\ conjugations = ConjFull
    /\ declension_map = DeclFull
    /\ GeneratorIdle
    /\ ServiceIdle
    /\ call \in { [fn |-> "create_matching_game_data", pairs |-> ps,
                   done |-> FALSE, result |-> <<>>] :
                  ps \in lists_up_to(PairPool, MaxPairs) }

CallCreateMatchingGameData ==
    /\ call.fn = "create_matching_game_data"
    /\ ~call.done
    /\ call' = [call EXCEPT !.done = TRUE,
                            !.result = create_matching_game_data(call.pairs)]
    /\ GeneratorUnchanged

NextMatch == CallCreateMatchingGameData

SpecMatch == InitMatch /\ [][NextMatch]_vars

-----------------------------------------------------------------------------
(* Properties of create_matching_game_data, checked under SpecMatch *)

MatchCallDone == call.fn = "create_matching_game_data" /\ call.done

\* the (subject root, verb root, tense) triples of the input pairs
InputKeys ==
    { <<call.pairs[i].subject.root, call.pairs[i].verb.root,
        call.pairs[i].verb.tense>> : i \in DOMAIN call.pairs }

\* positions of the input pairs with the given triple and number
PairsAt(K, number) ==
    { i \in DOMAIN call.pairs :
        /\ <<call.pairs[i].subject.root, call.pairs[i].verb.root,
             call.pairs[i].verb.tense>> = K
        /\ call.pairs[i].subject.number = number }

\* the slot of (K, number) is filled by a non-empty form on the given side
SlotFilled(K, number, side) ==
    /\ PairsAt(K, number) # {}
    /\ LET last == CHOOSE i \in PairsAt(K, number) :
                      \A j \in PairsAt(K, number) : j <= i
       IN  call.pairs[last][side].form # <<>>

FilledSlots(K) ==
    { <<n, side>> \in {"sg", "du", "pl"} \X {"subject", "verb"} :
        SlotFilled(K, n, side) }

EntriesOf(K) ==
    { i \in DOMAIN call.result :
        /\ call.result[i].subject_root = K[1]
        /\ call.result[i].verb_root = K[2]
        /\ call.result[i].tense = K[3] }

\* C11: the entry of a (subject root, verb root, tense) triple is in the
\* output if and only if its six slots, subject and verb in sg, du and pl,
\* are all filled with a non-empty form; no emitted entry has an empty slot.
C11_CompleteEntriesOnly ==
    MatchCallDone =>
        /\ \A K \in InputKeys :
              (EntriesOf(K) # {}) <=> (Cardinality(FilledSlots(K)) = 6)
        /\ \A i \in DOMAIN call.result :
              \A n \in {"sg", "du", "pl"} :
                 /\ call.result[i].subject_forms[n] \notin {PyNoneStr, <<>>}
                 /\ call.result[i].verb_forms[n] \notin {PyNoneStr, <<>>}

\* a triple with exactly one empty slot, on the verb side, is dropped
C11_Witness ==
    /\ MatchCallDone
    /\ \E K \in InputKeys :
          /\ Cardinality(FilledSlots(K)) = 5
          /\ \A n \in {"sg", "du", "pl"} : SlotFilled(K, n, "subject")
          /\ EntriesOf(K) = {}

EntryKey(i) ==
    <<call.result[i].subject_root, call.result[i].verb_root,
      call.result[i].tense>>

\* C23: the output has at most one entry per (subject root, verb root,
\* tense), and for each number the subject form and the verb form of an entry
\* are those of one input pair that has the entry's triple and that number,
\* so no form of a pair with another triple enters the entry.
C23_OneEntryPerKeyFromOnePair ==
    MatchCallDone =>
        /\ \A i, j \in DOMAIN call.result :
              i # j => EntryKey(i) # EntryKey(j)
        /\ \A i \in DOMAIN call.result :
              \A n \in {"sg", "du", "pl"} :
                 \E p \in PairsAt(EntryKey(i), n) :
                    /\ call.result[i].subject_forms[n]
                          = call.pairs[p].subject.form
                    /\ call.result[i].verb_forms[n] = call.pairs[p].verb.form

\* an emitted entry one of whose numbers was given by two pairs with
\* different verb forms, next to a pair of another triple
C23_Witness ==
    /\ MatchCallDone
    /\ \E i \in DOMAIN call.result :
          \E n \in {"sg", "du", "pl"} :
             \E p, q \in PairsAt(EntryKey(i), n) :
                call.pairs[p].verb.form # call.pairs[q].verb.form
    /\ Cardinality(InputKeys) = 1

\* two triples in the input, one of them emitted
C23_WitnessTwoKeys ==
    /\ MatchCallDone
    /\ Cardinality(InputKeys) = 2
    /\ call.result # <<>>

-----------------------------------------------------------------------------
(* dataset/mtc_gen.py run as a script *)

MaxVerbs == 2

\* nouns.json of a run: two nouns usable as subject
MainNouns ==
    << noun_record(<<"b", "aa", "l">>, "masc", "a", <<"human">>, TRUE, TRUE),
       noun_record(<<"m", "u", "n", "i">>, "masc", "i", <<"human">>,
                   TRUE, TRUE) >>

\* a verbs.json entry with its meaning
main_verb(root, vclass, meaning, req_obj) ==
    dict_set(verb_entry(root, vclass, Unset, Unset, req_obj, <<"human">>,
                        Unset),
             "meaning", meaning)

\* verbs.json entries: the root gam is listed under two classes
MainVerbs ==
    { main_verb(<<"g", "m", HALANT>>, "1P", <<"g", "o">>, FALSE),
      main_verb(<<"g", "m", HALANT>>, "4P", <<"g", "o", "2">>, FALSE),
      main_verb(<<"g", "m", HALANT>>, "1P", <<"w", "a", "l", "k">>, FALSE),
      main_verb(<<"n", "sh", HALANT>>, "4P", <<"p", "e", "r">>, FALSE),
      main_verb(<<"n", "sh", HALANT>>, "6P", <<"p", "e", "r">>, FALSE),
      main_verb(<<"p", "th", HALANT>>, "1P", <<"r", "e", "a", "d">>, FALSE),
      main_verb(<<"kh", "aa", "d", HALANT>>, "1P", <<"e", "a", "t">>, TRUE),
      main_verb(<<"l", "i", "kh">>, "6P", <<"w", "r">>, TRUE) }

\* the three pairs of one subject (mtc_gen.py:122-146)
RECURSIVE pairs_of_subject(_, _, _, _)
pairs_of_subject(v, t, noun, ni) ==
    IF ni > 3 THEN <<>>
    ELSE LET number == Numbers[ni]
             subject == dict_set(noun, "number", number)
             person == person_of(subject["root"])
             subject_form == inflect_noun(subject, "subject")
             verb_form == get_verb_form(v, person, number, t)
         IN  << [subject |-> subject_part(subject, number, person,
                                          subject_form),
                 verb |-> dict_set(verb_part(v, verb_form, person, number),
                                   "tense", t)] >>
             \o pairs_of_subject(v, t, noun, ni + 1)

\* the pairs of the valid subjects of one class (mtc_gen.py:121)
RECURSIVE pairs_of_class(_, _, _, _)
pairs_of_class(v, t, subj_class, si) ==
    IF si > Len(MainNouns) THEN <<>>
    ELSE (IF noun_is_valid(MainNouns[si], subj_class, "subject")
          THEN pairs_of_subject(v, t, MainNouns[si], 1) ELSE <<>>)
         \o pairs_of_class(v, t, subj_class, si + 1)

\* generate_subject_verb_pairs as a function of the verb and the tense
RECURSIVE subject_verb_pairs(_, _, _)
subject_verb_pairs(v, t, ci) ==
    IF ci > Len(v["allowed_subject_class"]) THEN <<>>
    ELSE pairs_of_class(v, t, v["allowed_subject_class"][ci], 1)
         \o subject_verb_pairs(v, t, ci + 1)

\* for verb in verbs: if not verb["requires_object"] (mtc_gen.py:185-187)
RECURSIVE pairs_of_tense(_, _)
pairs_of_tense(vs, t) ==
    IF vs = <<>> THEN <<>>
    ELSE (IF ~Head(vs)["requires_object"]
          THEN subject_verb_pairs(Head(vs), t, 1) ELSE <<>>)
         \o pairs_of_tense(Tail(vs), t)

\* for tense in ["present", "past", "future"] (mtc_gen.py:183-187)
main_all_pairs(vs) ==
    pairs_of_tense(vs, "present") \o pairs_of_tense(vs, "past")
        \o pairs_of_tense(vs, "future")

\* a run of the script on a verbs.json of up to MaxVerbs entries
InitMain ==
    /\ conjugations = ConjFull
    /\ declension_map = DeclFull
    /\ GeneratorIdle
    /\ ServiceIdle
    /\ call \in { [fn |-> "main", verbs |-> vs, at |-> "collect",
                   done |-> FALSE, pairs |-> <<>>, visited |-> 0,
                   game_data |-> <<>>, result |-> <<>>] :
                  vs \in lists_up_to(MainVerbs, MaxVerbs) }

\* the loops that fill all_pairs (mtc_gen.py:182-187)
CollectPairs ==
    /\ call.fn = "main"
    /\ call.at = "collect"
    /\ call' = [call EXCEPT !.pairs = main_all_pairs(call.verbs),
                            !.at = "aggregate"]
    /\ GeneratorUnchanged

\* for pair in pairs (mtc_gen.py:153-172)
AggregatePair ==
    /\ call.fn = "main"
    /\ call.at = "aggregate"
    /\ call.visited < Len(call.pairs)
    /\ call' = [call EXCEPT
                  !.visited = @ + 1,
                  !.game_data = add_pair(@, call.pairs[call.visited + 1])]
    /\ GeneratorUnchanged

\* the filter and the return (mtc_gen.py:174-180)
FilterEntries ==
    /\ call.fn = "main"
    /\ call.at = "aggregate"
    /\ call.visited = Len(call.pairs)
    /\ call' = [call EXCEPT !.result = complete_entries(call.game_data),
                            !.at = "done", !.done = TRUE]
    /\ GeneratorUnchanged

NextMain == CollectPairs \/ AggregatePair \/ FilterEntries

SpecMain == InitMain /\ [][NextMain]_vars

-----------------------------------------------------------------------------
(* Properties of the script run, checked under SpecMain *)

MainDone == call.fn = "main" /\ call.done

\* the verb of call.verbs at position k gave the meaning and, for the
\* subject's person, the three verb forms of entry i
EntryOfVerb(i, k) ==
    LET v == call.verbs[k]
        e == call.result[i]
    IN  /\ ~v["requires_object"]
        /\ v["root"] = e.verb_root
        /\ e.meaning = v["meaning"]
        /\ \A n \in {"sg", "du", "pl"} :
              e.verb_forms[n]
                 = get_verb_form(v, person_of(e.subject_root), n, e.tense)

\* the pairs of the input that carry the key of entry i
PairsOfEntry(i) ==
    { p \in DOMAIN call.pairs :
        <<call.pairs[p].subject.root, call.pairs[p].verb.root,
          call.pairs[p].verb.tense>> = EntryKey(i) }

\* C28: the meaning and the three verb forms of every emitted entry are
\* those of one verb, and all pairs gathered under the entry's key were
\* produced from that one verb (same class and meaning).
C28_OneVerbPerEntry ==
    MainDone =>
        \A i \in DOMAIN call.result :
           /\ \E k \in DOMAIN call.verbs : EntryOfVerb(i, k)
           /\ \A p, q \in PairsOfEntry(i) :
                 /\ call.pairs[p].verb.class = call.pairs[q].verb.class
                 /\ call.pairs[p].verb.meaning = call.pairs[q].verb.meaning

-----------------------------------------------------------------------------
(* The quiz services: app.py, servers/verb_game.py, servers/mtcGame.py *)

NEWLINE == "newline"

\* a JSON value that is neither a string nor falsy, such as a number
PyInt == <<"py_int">>

is_str(x) == x # PyNoneStr /\ x # PyInt

\* code points outside U+0900..U+097F
NonDevanagari == {PLACEHOLDER, SPACE, NEWLINE, "_", "a_grave", "yen"}

is_devanagari(c) == c \notin NonDevanagari

\* re.match(r'^[\u0900-\u097F]+$', form): "$" matches at the end and also
\* just before one newline that ends the string
re_match_devanagari(form) ==
    \/ /\ Len(form) > 0
       /\ \A i \in 1..Len(form) : is_devanagari(form[i])
    \/ /\ Len(form) > 1
       /\ form[Len(form)] = NEWLINE
       /\ \A i \in 1..(Len(form) - 1) : is_devanagari(form[i])

Variants == {"app", "verb_game", "mtcGame"}

\* the literal tested by stem.endswith: app.py:198 holds the two code points
\* U+00E0 U+00A5, verb_game.py:155 and mtcGame.py:120 hold the halant
halant_literal(variant) ==
    IF variant = "app" THEN <<"a_grave", "yen">> ELSE <<HALANT>>

\* s.endswith(lit) for a literal of any length
endswith_str(s, lit) ==
    /\ Len(s) >= Len(lit)
    /\ SubSeq(s, Len(s) - Len(lit) + 1, Len(s)) = lit

\* one entry of the flat verb list: app.py and verb_game.py copy the fields,
\* an absent stem becoming None; mtcGame.py keeps the document's dict
load_verb(variant, v) ==
    IF variant = "mtcGame" THEN v
    ELSE [root |-> v["root"], meaning |-> v["meaning"],
          verb_class |-> v["verb_class"],
          past_stem |-> dict_get(v, "past_stem", PyNoneStr),
          future_stem |-> dict_get(v, "future_stem", PyNoneStr),
          requires_object |-> dict_get(v, "requires_object", FALSE),
          allowed_subject_class |-> dict_get(v, "allowed_subject_class", <<>>),
          allowed_object_class |-> dict_get(v, "allowed_object_class", <<>>)]

load_verbs(variant, docs) == [i \in DOMAIN docs |-> load_verb(variant, docs[i])]

\* the verbs collection: one verb with a past stem only, one with both
\* stems, one class 4P verb with none
VerbDocs ==
    << verb_entry(<<"g", "m", HALANT>>, "1P", <<"a", "g", "m", HALANT>>,
                  Unset, FALSE, <<"animate">>, Unset),
       verb_entry(<<"n", "ii">>, "1P", <<"a", "n", "y">>, <<"n", "e">>,
                  FALSE, <<"animate">>, Unset),
       verb_entry(<<"n", "r", "t", HALANT>>, "4P", Unset, Unset,
                  FALSE, <<"animate">>, Unset) >>

\* roots asked for, the last one in no verb entry
AskedRoots ==
    { <<"g", "m", HALANT>>, <<"n", "ii">>, <<"n", "r", "t", HALANT>>,
      <<"p", "t", HALANT>> }

\* person_numbers of app.py:200, in its order
person_numbers ==
    <<"1_sg", "2_sg", "3_sg", "1_du", "2_du", "3_du", "1_pl", "2_pl", "3_pl">>

\* a conjugations collection with irregular values in class 1P: two pairs
\* of keys with one suffix each, a suffix ending in a newline, a suffix with a space, an
\* empty suffix and a suffix that is a number; no future tense, no 6P, 10P
ConjOdd ==
    [t \in {"present", "past"} |-> [c \in {"1P", "4P"} |-> [k \in AllKeys |->
        IF c = "4P" THEN ConjFull[t][c][k]
        ELSE CASE k = "2_du" -> ConjFull[t][c]["3_du"]
               [] k = "2_sg" -> ConjFull[t][c]["3_sg"]
               [] k = "1_pl" -> ConjFull[t][c][k] \o <<NEWLINE>>
               [] k = "1_sg" -> ConjFull[t][c][k] \o <<SPACE>>
               [] k = "2_pl" -> <<>>
               [] k = "1_du" -> PyInt
               [] OTHER -> ConjFull[t][c][k]]]]

ServiceTables == {ConjFull, ConjGaps, ConjOdd}

\* variant: the verb class is not compared
matching_verb_root_only(root, vclass) ==
    LET hits == { i \in DOMAIN verbs : verbs[i]["root"] = root }
    IN  IF hits = {} THEN 0
        ELSE CHOOSE i \in hits : \A j \in hits : i <= j

\* next((v for v in verbs if root and class match), None): 0 stands for None
matching_verb(root, vclass) ==
    LET hits == { i \in DOMAIN verbs :
                    verbs[i]["root"] = root /\ verbs[i]["verb_class"] = vclass }
    IN  IF hits = {} THEN 0
        ELSE CHOOSE i \in hits : \A j \in hits : i <= j

has_table(t, vclass) ==
    t \in DOMAIN conjugations /\ vclass \in DOMAIN conjugations[t]

\* the stem before the halant test; matching is a position of verbs
tense_stem(matching, root, t) ==
    IF t = "past" THEN dict_get(verbs[matching], "past_stem", root)
    ELSE IF t = "future" THEN dict_get(verbs[matching], "future_stem", root)
    ELSE root

\* variant: the membership test is left out
accepts_candidate_no_dedupe(form, correct_form, distractors) ==
    /\ form # correct_form
    /\ re_match_devanagari(form)

\* the condition under which a candidate is appended (app.py:214-217)
accepts_candidate(form, correct_form, distractors) ==
    /\ form # correct_form
    /\ \A i \in DOMAIN distractors : distractors[i] # form
    /\ re_match_devanagari(form)

\* the cap-2 generator up to the loop (app.py:184-205): the call either
\* returns [] or enters the loop with its stem and the keys still to visit
enter_distractors(c) ==
    LET matching == matching_verb(c.root, c.vclass)
        returns_empty == [c EXCEPT !.done = TRUE, !.result = <<>>]
    IN  IF ~has_table(c.tense, c.vclass) THEN returns_empty
        ELSE IF matching = 0 THEN returns_empty
        ELSE LET stem == tense_stem(matching, c.root, c.tense)
                 tests_halant == ~(c.tense = "present" /\ c.vclass = "4P")
                 own_key == person_number_key(c.person, c.number)
             IN  IF tests_halant /\ ~is_str(stem)
                 THEN returns_empty   \* AttributeError, outer except
                 ELSE [c EXCEPT
                         !.at = "loop",
                         !.stem = IF tests_halant /\ endswith_str(
                                       stem, halant_literal(c.variant))
                                  THEN drop_last(stem) ELSE stem,
                         !.remaining = { person_numbers[i] :
                                           i \in DOMAIN person_numbers }
                                       \ {own_key}]

\* one iteration of the loop for the key pn (app.py:208-223)
visit_key(c, pn) ==
    LET suffix == dict_get(conjugations[c.tense][c.vclass], pn, PyNoneStr)
        rest == [c EXCEPT !.remaining = @ \ {pn}]
    IN  IF suffix = PyNoneStr \/ suffix = <<>> THEN rest
        ELSE IF ~is_str(suffix) THEN rest   \* AttributeError, inner except
        ELSE LET form == attach_suffix(c.stem, suffix)
             IN  IF accepts_candidate(form, c.correct_form, c.distractors)
                 THEN [rest EXCEPT !.distractors = Append(@, form)]
                 ELSE rest

\* a call of generate_distractors that has not started
distractor_call(variant, correct_form, root, vclass, t, person, number) ==
    [fn |-> "generate_distractors", variant |-> variant,
     correct_form |-> correct_form, root |-> root, vclass |-> vclass,
     tense |-> t, person |-> person, number |-> number,
     at |-> "entry", stem |-> <<>>, remaining |-> {}, distractors |-> <<>>,
     done |-> FALSE, result |-> <<>>, raised |-> FALSE]

\* the form the sentence generator stored for the asked verb, or the root
\* when the verb is in no document
stored_form(root, vclass, person, number, t) ==
    IF \E i \in DOMAIN VerbDocs :
          VerbDocs[i]["root"] = root /\ VerbDocs[i]["verb_class"] = vclass
    THEN get_verb_form(
            VerbDocs[CHOOSE i \in DOMAIN VerbDocs :
                        /\ VerbDocs[i]["root"] = root
                        /\ VerbDocs[i]["verb_class"] = vclass],
            person, number, t)
    ELSE root

AskedClasses == {"1P", "4P", "6P"}

\* one service process with its loaded tables and one call to evaluate
InitDistractors ==
    /\ conjugations \in ServiceTables
    /\ declension_map = DeclFull
    /\ GeneratorIdle
    /\ sentences = <<>>
    /\ response = None
    /\ StoreIdle
    /\ \E variant \in Variants :
          /\ verbs = load_verbs(variant, VerbDocs)
          /\ call \in { distractor_call(variant,
                            stored_form(root, vclass, person, Numbers[i], t),
                            root, vclass, t, person, Numbers[i]) :
                        root \in AskedRoots, vclass \in AskedClasses,
                        t \in Tenses, person \in Persons, i \in 1..3 }

ServiceUnchanged ==
    UNCHANGED <<conjugations, declension_map, heap, nouns, verb, tense,
                sentence_data, pairs, script, pc, loc,
                verbs, sentences, response, db, store, requests>>

\* app.py:184-205, verb_game.py:136-166
EnterDistractors ==
    /\ call.fn = "generate_distractors"
    /\ call.variant \in {"app", "verb_game"}
    /\ ~call.done
    /\ call.at = "entry"
    /\ call' = enter_distractors(call)
    /\ ServiceUnchanged

\* the next key of the shuffled list (app.py:207-223)
VisitKey ==
    /\ call.fn = "generate_distractors"
    /\ call.variant \in {"app", "verb_game"}
    /\ ~call.done
    /\ call.at = "loop"
    /\ Len(call.distractors) < 2
    /\ \E pn \in call.remaining : call' = visit_key(call, pn)
    /\ ServiceUnchanged

\* the break or the end of the list, then return distractors[:2]
ReturnDistractors ==
    /\ call.fn = "generate_distractors"
    /\ call.variant \in {"app", "verb_game"}
    /\ ~call.done
    /\ call.at = "loop"
    /\ Len(call.distractors) >= 2 \/ call.remaining = {}
    /\ call' = [call EXCEPT
                  !.done = TRUE,
                  !.result = SubSeq(call.distractors, 1,
                               IF Len(call.distractors) < 2
                               THEN Len(call.distractors) ELSE 2)]
    /\ ServiceUnchanged

\* conjugations[tense][vclass].values() in the order of the keys
table_values(t, vclass) ==
    LET present_keys == SelectSeq(person_numbers,
                           LAMBDA k : k \in DOMAIN conjugations[t][vclass])
    IN  [i \in DOMAIN present_keys |-> conjugations[t][vclass][present_keys[i]]]

\* the loop of mtcGame.py:117-125: the halant test runs in every iteration
\* and a failing iteration is skipped
RECURSIVE mtc_loop(_, _, _, _)
mtc_loop(suffixes, stem, correct_form, distractors) ==
    IF suffixes = <<>> THEN distractors
    ELSE IF ~is_str(stem)
    THEN mtc_loop(Tail(suffixes), stem, correct_form, distractors)
    ELSE LET stripped == IF endswith(stem, HALANT) THEN drop_last(stem)
                         ELSE stem
             suffix == Head(suffixes)
             form == attach_suffix(stripped, suffix)
         IN  IF ~is_str(suffix)
             THEN mtc_loop(Tail(suffixes), stripped, correct_form, distractors)
             ELSE mtc_loop(Tail(suffixes), stripped, correct_form,
                           IF form # correct_form
                           THEN Append(distractors, form) ELSE distractors)

\* random.sample(population, k): k distinct positions in any order
random_sample(population, k) ==
    { [i \in 1..k |-> population[f[i]]] :
        f \in { g \in [1..k -> DOMAIN population] :
                  \A i, j \in 1..k : i # j => g[i] # g[j] } }

min(a, b) == IF a < b THEN a ELSE b

\* variant: the stem is looked up before the table is tested
mtc_generate_distractors_lookup_first(correct_form, root, vclass, t) ==
    LET matching == matching_verb(root, vclass)
    IN  IF matching = 0 /\ t \in {"past", "future"}
        THEN { [raised |-> TRUE, result |-> <<>>] }
        ELSE IF ~has_table(t, vclass)
        THEN { [raised |-> FALSE, result |-> <<>>] }
        ELSE LET stem == IF matching = 0 THEN root
                         ELSE tense_stem(matching, root, t)
                 distractors == mtc_loop(table_values(t, vclass), stem,
                                         correct_form, <<>>)
             IN  { [raised |-> FALSE, result |-> r] :
                     r \in random_sample(distractors,
                                         min(3, Len(distractors))) }

\* the outcomes of mtcGame.generate_distractors: a returned list, or the
\* AttributeError of None.get when no verb matches and a stem is looked up
mtc_generate_distractors(correct_form, root, vclass, t) ==
    LET matching == matching_verb(root, vclass)
    IN  IF ~has_table(t, vclass)
        THEN { [raised |-> FALSE, result |-> <<>>] }
        ELSE IF matching = 0 /\ t \in {"past", "future"}
        THEN { [raised |-> TRUE, result |-> <<>>] }
        ELSE LET stem == IF matching = 0 THEN root
                         ELSE tense_stem(matching, root, t)
                 distractors == mtc_loop(table_values(t, vclass), stem,
                                         correct_form, <<>>)
             IN  { [raised |-> FALSE, result |-> r] :
                     r \in random_sample(distractors,
                                         min(3, Len(distractors))) }

\* mtcGame.py:106-127
MtcGenerateDistractors ==
    /\ call.fn = "generate_distractors"
    /\ call.variant = "mtcGame"
    /\ ~call.done
    /\ \E out \in mtc_generate_distractors(call.correct_form, call.root,
                                           call.vclass, call.tense) :
          call' = [call EXCEPT !.done = TRUE, !.result = out.result,
                               !.raised = out.raised]
    /\ ServiceUnchanged

NextDistractors ==
    \/ EnterDistractors
    \/ VisitKey
    \/ ReturnDistractors
    \/ MtcGenerateDistractors

SpecDistractors == InitDistractors /\ [][NextDistractors]_vars

-----------------------------------------------------------------------------
(* Properties of generate_distractors, checked under SpecDistractors *)

DistractorsDone == call.fn = "generate_distractors" /\ call.done

\* the call is one of the two generators capped at 2
CapTwo == call.fn = "generate_distractors" /\ call.variant \in {"app", "verb_game"}

CapTwoDone == CapTwo /\ call.done

HasDuplicate(forms) ==
    \E i, j \in DOMAIN forms : i # j /\ forms[i] = forms[j]

\* the keys of the asked table whose suffix is a non-empty string
StringKeys ==
    IF has_table(call.tense, call.vclass)
    THEN { k \in DOMAIN conjugations[call.tense][call.vclass] :
             /\ is_str(conjugations[call.tense][call.vclass][k])
             /\ conjugations[call.tense][call.vclass][k] # <<>> }
    ELSE {}

\* the candidate the cap-2 loop builds for a key, once the stem is fixed
CandidateOf(k) ==
    call.stem \o replace_all(conjugations[call.tense][call.vclass][k],
                             PLACEHOLDER)

OwnKey == person_number_key(call.person, call.number)

\* C12: a list returned by the cap-2 generate_distractors never holds the
\* correct form and never holds one form twice, whatever the order in which
\* the keys were visited.
C12_ExcludesCorrectAndDuplicates ==
    CapTwoDone =>
        /\ \A i \in DOMAIN call.result : call.result[i] # call.correct_form
        /\ ~HasDuplicate(call.result)

\* two forms were returned although another key's candidate was the correct
\* form and two keys shared one candidate
C12_Witness ==
    /\ CapTwoDone
    /\ call.at = "loop"
    /\ Len(call.result) = 2
    /\ \E k \in StringKeys \ {OwnKey} : CandidateOf(k) = call.correct_form
    /\ \E k \in StringKeys \ {OwnKey} : \E l \in StringKeys \ {OwnKey, k} :
          CandidateOf(k) = CandidateOf(l)

\* C13: the cap-2 generate_distractors returns at most 2 forms, each of them
\* non-empty and made only of code points of the block U+0900..U+097F.
C13_CapAndScript ==
    CapTwoDone =>
        /\ Len(call.result) <= 2
        /\ \A i \in DOMAIN call.result :
              /\ call.result[i] # <<>>
              /\ \A j \in DOMAIN call.result[i] :
                    is_devanagari(call.result[i][j])

\* C14: the list returned by mtcGame.generate_distractors has at most 3
\* forms, never holds the correct form and never holds one form twice, also
\* for a table in which two keys share one suffix.
C14_CapThreeExcludesAndUnique ==
    (DistractorsDone /\ call.variant = "mtcGame" /\ ~call.raised) =>
        /\ Len(call.result) <= 3
        /\ \A i \in DOMAIN call.result : call.result[i] # call.correct_form
        /\ ~HasDuplicate(call.result)

\* the verb document of the asked root and class
AskedDoc ==
    VerbDocs[CHOOSE i \in DOMAIN VerbDocs :
                /\ VerbDocs[i]["root"] = call.root
                /\ VerbDocs[i]["verb_class"] = call.vclass]

\* the person and the number of a key
KeyPerson(k) == CHOOSE p \in Persons : \E i \in 1..3 :
                   person_number_key(p, Numbers[i]) = k

KeyNumber(k) == CHOOSE n \in {"sg", "du", "pl"} :
                   person_number_key(KeyPerson(k), n) = k

\* C15: in app.py every candidate of generate_distractors is the form that
\* get_verb_form gives for the same verb, key and tense.
C15_CandidatesAreInflectorForms ==
    (CapTwo /\ call.variant = "app" /\ call.at = "loop") =>
        \A k \in StringKeys :
           CandidateOf(k) = get_verb_form(AskedDoc, KeyPerson(k),
                                          KeyNumber(k), call.tense)

\* C16: when the tense is not in the loaded conjugations, or the class is not
\* under the tense, generate_distractors returns [] and raises nothing.
C16_NoTableGivesEmpty ==
    (DistractorsDone /\ ~(/\ call.tense \in DOMAIN conjugations
                          /\ call.vclass \in DOMAIN conjugations[call.tense]))
        => (call.result = <<>> /\ ~call.raised)

\* mtcGame is asked for the future tense of a root in no verb entry while the
\* conjugations hold no future tense
C16_Witness ==
    /\ DistractorsDone
    /\ call.variant = "mtcGame"
    /\ call.tense = "future"
    /\ "future" \notin DOMAIN conjugations
    /\ \A i \in DOMAIN verbs : verbs[i]["root"] # call.root
    /\ call.result = <<>>

NoVerbMatches ==
    \A i \in DOMAIN verbs :
       ~(verbs[i]["root"] = call.root /\ verbs[i]["verb_class"] = call.vclass)

\* C17: when no loaded verb entry has the asked root and class, the cap-2
\* generate_distractors returns [] in every tense.
C17_NoVerbGivesEmpty ==
    (CapTwoDone /\ NoVerbMatches) => (call.result = <<>> /\ ~call.raised)

\* a known root asked with another class whose table exists, in the past
C17_Witness ==
    /\ CapTwoDone
    /\ NoVerbMatches
    /\ \E i \in DOMAIN verbs : verbs[i]["root"] = call.root
    /\ call.tense = "past"
    /\ StringKeys # {}
    /\ call.result = <<>>

\* C18: generate_distractors never raises to its caller.
C18_NeverRaises == DistractorsDone => ~call.raised

-----------------------------------------------------------------------------
(* generate_explanation of app.py and servers/tense_game.py *)

\* the two fixed strings, as texts of one clause
NoExplanation == << <<"No explanation available.">> >>
ErrorExplanation == << <<"Error generating explanation.">> >>

\* bool(d) of a dict or None
truthy_dict(d) == d # None /\ DOMAIN d # {}

\* label(person, number): a key in neither map prints as None
label(person, number) ==
    << CASE person = "1" -> "First person"
         [] person = "2" -> "Second person"
         [] person = "3" -> "Third person"
         [] OTHER -> NoneStr,
       CASE number = "sg" -> "singular"
         [] number = "du" -> "dual"
         [] number = "pl" -> "plural"
         [] OTHER -> NoneStr >>

\* " ".join(parts) or "No explanation available."; a text is the list of
\* its clauses, and every clause is a non-empty string
join_or_default(parts) == IF parts = <<>> THEN NoExplanation ELSE parts

\* app.py:231-246
app_generate_explanation(sentence) ==
    LET subject == dict_get(sentence, "subject", EmptyDict)
        v == dict_get(sentence, "verb", EmptyDict)
        obj == dict_get(sentence, "object", EmptyDict)
    IN  IF subject = None \/ v = None
        THEN ErrorExplanation   \* AttributeError of None.get, caught
        ELSE join_or_default(
               << <<"Subject", dict_get(subject, "form", "")>>
                     \o label(dict_get(subject, "person", NoneStr),
                              dict_get(subject, "number", NoneStr)),
                  <<"Verb root", dict_get(v, "root", ""),
                    dict_get(v, "class", ""), dict_get(v, "meaning", "")>>,
                  <<"Tense", dict_get(sentence, "tense", "unknown")>>,
                  <<"This verb", IF truthy_dict(obj) THEN "requires"
                                 ELSE "does not require", "an object.">>,
                  <<"The correct form is", dict_get(v, "form", "")>> >>)

\* tense_game.py:33-56
tense_generate_explanation(q) ==
    LET v == dict_get(q, "verb", EmptyDict)
        subject == dict_get(q, "subject", EmptyDict)
        obj == dict_get(q, "object", EmptyDict)
    IN  join_or_default(
          (IF truthy_dict(v)
           THEN << <<"Verb root", dict_get(v, "root", ""),
                     dict_get(v, "form", ""),
                     dict_get(q, "tense", "unknown"),
                     dict_get(v, "meaning", "")>> >>
           ELSE <<>>)
          \o (IF truthy_dict(subject)
              THEN << <<"Subject", dict_get(subject, "form", ""),
                        dict_get(subject, "number", ""),
                        dict_get(subject, "gender", "")>> >>
              ELSE <<>>)
          \o (IF truthy_dict(obj)
              THEN << <<"Object", dict_get(obj, "form", ""),
                        dict_get(obj, "number", ""),
                        dict_get(obj, "gender", "")>> >>
              ELSE <<>>))

generate_explanation(variant, sentence) ==
    IF variant = "app" THEN app_generate_explanation(sentence)
    ELSE tense_generate_explanation(sentence)

\* the dict d without the keys outside keep
restrict(d, keep) == [k \in (DOMAIN d) \cap keep |-> d[k]]

SubjectValues ==
    { None, EmptyDict,
      [form |-> "baalaH", person |-> "3", number |-> "sg", gender |-> "masc"],
      [form |-> "aham"] }

VerbValues ==
    { None, EmptyDict,
      [root |-> "gam", form |-> "gacchati", class |-> "1P",
       meaning |-> "to go"] }

ObjectValues ==
    { None, EmptyDict,
      [form |-> "phalam", number |-> "sg", gender |-> "neut"] }

\* sentence records with any of the four fields absent, null or empty
ExplainedRecords ==
    { restrict([sentence |-> "s", subject |-> sv, verb |-> vv, object |-> ov,
                tense |-> "present"], keep \cup {"sentence"}) :
        sv \in SubjectValues, vv \in VerbValues, ov \in ObjectValues,
        keep \in SUBSET {"subject", "verb", "object", "tense"} }

InitExplain ==
    /\ conjugations = ConjFull
    /\ declension_map = DeclFull
    /\ GeneratorIdle
    /\ ServiceIdle
    /\ call \in { [fn |-> "generate_explanation", variant |-> variant,
                   sentence |-> r, done |-> FALSE, result |-> <<>>] :
                  variant \in {"app", "tense_game"}, r \in ExplainedRecords }

CallGenerateExplanation ==
    /\ call.fn = "generate_explanation"
    /\ ~call.done
    /\ call' = [call EXCEPT
                  !.done = TRUE,
                  !.result = generate_explanation(call.variant, call.sentence)]
    /\ GeneratorUnchanged

NextExplain == CallGenerateExplanation

SpecExplain == InitExplain /\ [][NextExplain]_vars

-----------------------------------------------------------------------------
(* Properties of generate_explanation, checked under SpecExplain *)

ExplainDone == call.fn = "generate_explanation" /\ call.done

\* C19: generate_explanation returns a string for every sentence record, and
\* for a record without its subject field or without its verb field the
\* string is the fixed "No explanation available.".
C19_FixedStringOnMissingField ==
    ExplainDone =>
        /\ call.result # <<>>
        /\ ("subject" \notin DOMAIN call.sentence
              \/ "verb" \notin DOMAIN call.sentence)
           => call.result = NoExplanation

-----------------------------------------------------------------------------
(* GET /api/get-game of app.py and servers/verb_game.py *)

BLANK == "_____"

\* replace_verb_with_blank: a text is the list of its words
replace_verb_with_blank(text, form) ==
    IF form = <<>> THEN text
    ELSE IF text = <<>> THEN text   \* IndexError, caught: the text is kept
    ELSE IF \E i \in DOMAIN text : text[i] = form
    THEN [text EXCEPT ![CHOOSE i \in DOMAIN text :
                          /\ text[i] = form
                          /\ \A j \in DOMAIN text : text[j] = form => i <= j]
                        = <<BLANK>>]
    ELSE [text EXCEPT ![Len(text)] = <<BLANK>>]

\* bool(d.get(k)) for a value whose empty form is given
field_truthy(d, k, empty) == k \in DOMAIN d /\ d[k] # empty

\* the checks of app.py:293-319 on the selected record, up to the arguments
\* of generate_distractors
validate(q) ==
    IF \/ "verb" \notin DOMAIN q
       \/ "subject" \notin DOMAIN q
    THEN "exception"   \* KeyError of q["verb"] or q["subject"]
    ELSE IF q["verb"] = None \/ q["subject"] = None
    THEN "exception"   \* AttributeError of None.get
    ELSE IF ~(/\ field_truthy(q, "sentence", <<>>)
              /\ truthy_dict(q["verb"])
              /\ field_truthy(q["verb"], "form", <<>>)
              /\ field_truthy(q, "tense", "")
              /\ truthy_dict(q["subject"])
              /\ field_truthy(q["subject"], "form", <<>>)
              /\ field_truthy(q["subject"], "person", "")
              /\ field_truthy(q["subject"], "number", ""))
    THEN "Invalid sentence data"
    ELSE IF ~re_match_devanagari(q["verb"]["form"])
    THEN "Invalid verb form"
    ELSE IF q["tense"] \notin {"present", "past", "future"}
    THEN "Invalid tense"
    ELSE IF "root" \notin DOMAIN q["verb"] \/ "class" \notin DOMAIN q["verb"]
    THEN "exception"   \* KeyError while the arguments are built
    ELSE "ok"

\* variant: two options are enough
insufficient_options_below_two(options) == Len(options) < 2

\* len(options) < 3
insufficient_options(options) == Len(options) < 3

\* random.shuffle(options): every order of the list
shuffles(options) ==
    { [i \in DOMAIN options |-> options[f[i]]] :
        f \in { g \in [DOMAIN options -> DOMAIN options] :
                  \A i, j \in DOMAIN options : i # j => g[i] # g[j] } }

\* a sentence document as gen.py stores it
sentence_doc(root, vclass, person, number, t) ==
    [sentence |-> << <<"s", number>>,
                     stored_form(root, vclass, person, number, t) >>,
     subject |-> [form |-> <<"s", number>>, person |-> person,
                  number |-> number],
     verb |-> [form |-> stored_form(root, vclass, person, number, t),
               root |-> root, class |-> vclass, meaning |-> <<"m">>],
     tense |-> t]

\* the loaded sentences: five documents of the generator, one whose verb
\* form is that of another number, then documents without a verb, with an empty verb form, with a tense outside the three,
\* without the verb's root and with a space in the verb form
SentenceDocs ==
    LET good == sentence_doc(<<"g", "m", HALANT>>, "1P", "3", "sg", "present")
    IN  << good,
           sentence_doc(<<"n", "ii">>, "1P", "2", "du", "past"),
           sentence_doc(<<"n", "r", "t", HALANT>>, "4P", "1", "pl", "present"),
           sentence_doc(<<"g", "m", HALANT>>, "1P", "3", "pl", "future"),
           sentence_doc(<<"n", "ii">>, "1P", "3", "sg", "future"),
           [sentence_doc(<<"n", "ii">>, "1P", "3", "sg", "past") EXCEPT
              !.verb = [@ EXCEPT !.form = stored_form(<<"n", "ii">>, "1P",
                                                      "3", "du", "past")]],
           restrict(good, {"sentence", "subject", "tense"}),
           [good EXCEPT !.verb = [@ EXCEPT !.form = <<>>]],
           [good EXCEPT !.tense = "aorist"],
           [good EXCEPT !.verb = restrict(@, {"form", "class", "meaning"})],
           [good EXCEPT !.verb = [@ EXCEPT !.form = <<"g", SPACE, "ti">>]] >>

Idle(variant) == [fn |-> "idle", variant |-> variant]

\* a service process after its tables are loaded
InitService ==
    /\ conjugations \in ServiceTables
    /\ declension_map = DeclFull
    /\ GeneratorIdle
    /\ verbs = load_verbs("app", VerbDocs)
    /\ sentences \in { <<>>, SentenceDocs }
    /\ response = None
    /\ StoreIdle
    /\ call \in { Idle(variant) : variant \in {"app", "verb_game"} }

TablesUnchanged ==
    UNCHANGED <<conjugations, declension_map, heap, nouns, verb, tense,
                sentence_data, pairs, script, pc, loc, verbs, sentences,
                db, store, requests>>

\* no request is being handled
NoRequest == IF response = None THEN TRUE ELSE response.status # "pending"

\* q is the position of the selected record, 0 when none was selected
error_response(status, message, q) ==
    [status |-> status, error |-> message, q |-> q]

\* the handler up to the call of generate_distractors (app.py:286-319)
GetGame ==
    /\ call.fn \in {"idle", "generate_distractors"}
    /\ NoRequest
    /\ \E method \in {"GET", "OPTIONS"} :
          IF method = "OPTIONS"
          THEN /\ response' = [status |-> "200", body |-> "ok"]
               /\ call' = Idle(call.variant)
          ELSE IF sentences = <<>>
          THEN /\ response' = error_response("404", "No sentences available",
                                              0)
               /\ call' = Idle(call.variant)
          ELSE \E i \in DOMAIN sentences :
                 LET q == sentences[i]
                     verdict == validate(q)
                 IN  IF verdict = "exception"
                     THEN /\ response' = error_response("500",
                                            "Failed to load question", i)
                          /\ call' = Idle(call.variant)
                     ELSE IF verdict # "ok"
                     THEN /\ response' = error_response("404", verdict, i)
                          /\ call' = Idle(call.variant)
                     ELSE /\ response' = [status |-> "pending", q |-> i]
                          /\ call' = distractor_call(call.variant,
                                        q["verb"]["form"], q["verb"]["root"],
                                        q["verb"]["class"], q["tense"],
                                        q["subject"]["person"],
                                        q["subject"]["number"])
    /\ TablesUnchanged

\* the handler after generate_distractors has returned (app.py:320-332)
GetGameRespond ==
    /\ call.fn = "generate_distractors"
    /\ call.done
    /\ ~NoRequest
    /\ LET q == sentences[response.q]
           options == <<q["verb"]["form"]>> \o call.result
       IN  IF insufficient_options(options)
           THEN response' = error_response("404",
                               "Insufficient options available", response.q)
           ELSE \E shuffled \in shuffles(options) :
                  response' =
                    [status |-> "200", q |-> response.q,
                     sentence |-> replace_verb_with_blank(q["sentence"],
                                                          q["verb"]["form"]),
                     correct |-> q["verb"]["form"],
                     options |-> shuffled,
                     hint |-> <<q["subject"]["form"]>>
                              \o label(q["subject"]["person"],
                                       q["subject"]["number"])
                              \o <<q["tense"]>>,
                     explanation |-> generate_explanation(call.variant, q)]
    /\ call' = call
    /\ TablesUnchanged

NextService ==
    \/ GetGame
    \/ EnterDistractors
    \/ VisitKey
    \/ ReturnDistractors
    \/ GetGameRespond

SpecService == InitService /\ [][NextService]_vars

-----------------------------------------------------------------------------
(* Properties of GET /api/get-game, checked under SpecService *)

\* the last request was answered with a question
Served ==
    IF response = None THEN FALSE
    ELSE response.status = "200" /\ "options" \in DOMAIN response

\* the last request was answered with an error
Rejected ==
    IF response = None THEN FALSE
    ELSE "error" \in DOMAIN response /\ response.status \in {"404", "500"}

\* the last request ran generate_distractors and has been answered
AnsweredAfterDistractors ==
    /\ call.fn = "generate_distractors"
    /\ call.done
    /\ NoRequest
    /\ response # None

\* a record that lacks a field the question is built from
Malformed(q) ==
    \/ "verb" \notin DOMAIN q
    \/ "subject" \notin DOMAIN q
    \/ "tense" \notin DOMAIN q
    \/ q["tense"] \notin Tenses
    \/ "form" \notin DOMAIN q["verb"]
    \/ q["verb"]["form"] = <<>>
    \/ \E i \in DOMAIN q["verb"]["form"] :
          q["verb"]["form"][i] \in NonDevanagari \ {NEWLINE}
    \/ "root" \notin DOMAIN q["verb"]
    \/ "class" \notin DOMAIN q["verb"]

OptionBound ==
    /\ Served =>
          /\ Len(response.options) = 3
          /\ ~HasDuplicate(response.options)
          /\ Cardinality({ i \in DOMAIN response.options :
                             response.options[i] = response.correct }) = 1
          /\ response.correct = sentences[response.q]["verb"]["form"]
          /\ ~Malformed(sentences[response.q])
    /\ (AnsweredAfterDistractors /\ Len(call.result) < 2) => Rejected

\* C20: /api/get-game serves a question only with exactly 3 pairwise
\* distinct options that hold the correct form once; a request with fewer
\* than 2 distractors or with a malformed record is answered with an error;
\* no request changes the loaded sentences, conjugations or verbs.
C20_OptionBound ==
    /\ []OptionBound
    /\ [][UNCHANGED <<sentences, conjugations, verbs>>]_vars

\* a question is served with the correct form not in the first place, after
\* an earlier kind of record was possible to reject
C20_Witness ==
    /\ Served
    /\ Len(response.options) = 3
    /\ response.options[1] # response.correct
    /\ \E i \in DOMAIN sentences : Malformed(sentences[i])

-----------------------------------------------------------------------------
(* app.py: lazy initialisation in the before_request hook, with concurrent
   requests of /api/get-game *)

\* number of request threads
MaxRequests == 2

\* every value the cap-2 loop can return from the loop states in S, over
\* all orders of the shuffled key list (app.py:207-226)
RECURSIVE loop_results(_)
loop_results(S) ==
    IF S = {} THEN {}
    ELSE LET finished == { c \in S : Len(c.distractors) >= 2
                                       \/ c.remaining = {} }
         IN  { SubSeq(c.distractors, 1, min(2, Len(c.distractors))) :
                 c \in finished }
             \cup loop_results(UNION { { visit_key(c, pn) :
                                           pn \in c.remaining } :
                                       c \in S \ finished })

\* every value generate_distractors of app.py or verb_game.py can return
cap_two_results(variant, correct_form, root, vclass, t, person, number) ==
    LET entered == enter_distractors(distractor_call(variant, correct_form,
                      root, vclass, t, person, number))
    IN  IF entered.done THEN { entered.result }
        ELSE loop_results({ entered })

\* load_sentences: the documents that pass the query of app.py:104-113
load_sentences(docs) ==
    SelectSeq(docs, LAMBDA d :
        /\ {"sentence", "verb", "tense", "subject"} \subseteq DOMAIN d
        /\ {"form", "root", "class"} \subseteq DOMAIN d["verb"]
        /\ d["tense"] \in {"present", "past", "future"}
        /\ {"form", "person", "number"} \subseteq DOMAIN d["subject"])

\* load_conjugations: the tenses of every document, later documents winning,
\* each restricted to the four classes (app.py:125-129)
RECURSIVE load_conjugations(_)
load_conjugations(docs) ==
    IF docs = <<>> THEN EmptyDict
    ELSE LET before == load_conjugations(SubSeq(docs, 1, Len(docs) - 1))
             doc == docs[Len(docs)]
         IN  [t \in DOMAIN before \cup
                    (DOMAIN doc \cap {"present", "past", "future"}) |->
                IF t \in DOMAIN doc
                THEN restrict(doc[t], {"1P", "4P", "6P", "10P"})
                ELSE before[t]]

\* a request that has not entered its before_request hook
NewRequest == [at |-> "new", saw_db |-> FALSE, q |-> 0, response |-> None]

\* a stored sentence document with the given verb form
stored_sentence(root, vclass, form, person, number, t) ==
    [sentence |-> << <<"s", number>>, form >>,
     subject |-> [form |-> <<"s", number>>, person |-> person,
                  number |-> number],
     verb |-> [form |-> form, root |-> root, class |-> vclass,
               meaning |-> <<"m">>],
     tense |-> t]

\* the sentences collection: two documents of the generator and one that
\* the query of load_sentences leaves out
StoredSentences ==
    << stored_sentence(<<"g", "m", HALANT>>, "1P",
                       <<"a", "g", "m", "t", "t", "i">>, "3", "sg", "past"),
       stored_sentence(<<"n", "ii">>, "1P",
                       <<"a", "n", "y", "t", "t", "H">>, "3", "du", "past"),
       [stored_sentence(<<"n", "ii">>, "1P", <<"n", "ii", "t", "i">>,
                        "3", "sg", "present") EXCEPT !.tense = "aorist"] >>

\* the database of the deployment: sentences, one conjugations document and
\* the verbs of VerbDocs
LoadedStore ==
    [EmptyStore EXCEPT !.sentences = StoredSentences,
                       !.conjugations = <<ConjGaps>>,
                       !.verbs = VerbDocs]

\* the process after import: empty tables, no connection (app.py:58-69)
InitLazy ==
    /\ conjugations = EmptyDict
    /\ declension_map = DeclFull
    /\ GeneratorIdle
    /\ call = NoCall
    /\ verbs = <<>>
    /\ sentences = <<>>
    /\ response = None
    /\ db = NoDb
    /\ store \in { LoadedStore, [LoadedStore EXCEPT !.sentences = <<>>] }
    /\ requests = [r \in 1..MaxRequests |-> NewRequest]

LazyUnchanged ==
    UNCHANGED <<declension_map, heap, nouns, verb, tense, sentence_data,
                pairs, script, pc, loc, call, store>>

\* the frame of request r moves to position at
goto(r, at) == [requests EXCEPT ![r].at = at]

\* before_request, init_db: "if db is None" (app.py:73)
BeforeRequest(r) ==
    /\ requests[r].at = "new"
    /\ requests' = [requests EXCEPT
                      ![r].at = IF db.connected THEN "handler" ELSE "connect",
                      ![r].saw_db = db.connected]
    /\ UNCHANGED <<db, sentences, conjugations, verbs>>
    /\ response' = response
    /\ LazyUnchanged

\* MongoClient(...) and the ping (app.py:75-76); a failure is caught and
\* assigns db = None (app.py:90-92)
Connect(r) ==
    /\ requests[r].at = "connect"
    /\ \/ /\ requests' = goto(r, "set_db")
          /\ db' = db
       \/ /\ requests' = goto(r, "handler")
          /\ db' = [db EXCEPT !.connected = FALSE]
    /\ UNCHANGED <<sentences, conjugations, verbs>>
    /\ response' = response
    /\ LazyUnchanged

\* db = client.get_database() (app.py:77)
SetDb(r) ==
    /\ requests[r].at = "set_db"
    /\ db' = [db EXCEPT !.connected = TRUE]
    /\ requests' = goto(r, "set_collections")
    /\ UNCHANGED <<sentences, conjugations, verbs>>
    /\ response' = response
    /\ LazyUnchanged

\* the five collection handles (app.py:78-82)
SetCollections(r) ==
    /\ requests[r].at = "set_collections"
    /\ db' = [db EXCEPT !.collections = TRUE]
    /\ requests' = goto(r, "load_sentences")
    /\ UNCHANGED <<sentences, conjugations, verbs>>
    /\ response' = response
    /\ LazyUnchanged

\* sentences = load_sentences() (app.py:85)
LoadSentences(r) ==
    /\ requests[r].at = "load_sentences"
    /\ sentences' = load_sentences(store.sentences)
    /\ requests' = goto(r, "load_conjugations")
    /\ UNCHANGED <<db, conjugations, verbs>>
    /\ response' = response
    /\ LazyUnchanged

\* conjugations = load_conjugations() (app.py:86)
LoadConjugations(r) ==
    /\ requests[r].at = "load_conjugations"
    /\ conjugations' = load_conjugations(store.conjugations)
    /\ requests' = goto(r, "load_verbs")
    /\ UNCHANGED <<db, sentences, verbs>>
    /\ response' = response
    /\ LazyUnchanged

\* verbs = load_verbs() (app.py:87); the hook returns
LoadVerbs(r) ==
    /\ requests[r].at = "load_verbs"
    /\ verbs' = load_verbs("app", store.verbs)
    /\ requests' = goto(r, "handler")
    /\ UNCHANGED <<db, sentences, conjugations>>
    /\ response' = response
    /\ LazyUnchanged

\* request r is answered and its thread is free for the next request
answer(r, reply) ==
    /\ response' = [reply EXCEPT !.q = r]
    /\ requests' = [requests EXCEPT ![r] = NewRequest]

\* get_verb_game up to random.choice (app.py:289-292)
HandlerRead(r) ==
    /\ requests[r].at = "handler"
    /\ IF sentences = <<>>
       THEN answer(r, error_response("404", "No sentences available", r))
       ELSE /\ \E i \in DOMAIN sentences :
                  requests' = [requests EXCEPT ![r].at = "answer",
                                               ![r].q = sentences[i]]
            /\ response' = response
    /\ UNCHANGED <<db, sentences, conjugations, verbs>>
    /\ LazyUnchanged

\* get_verb_game from the checks of the record to the response
\* (app.py:293-335)
HandlerAnswer(r) ==
    /\ requests[r].at = "answer"
    /\ LET q == requests[r].q
           verdict == validate(q)
       IN  IF verdict = "exception"
           THEN answer(r, error_response("500", "Failed to load question", r))
           ELSE IF verdict # "ok"
           THEN answer(r, error_response("404", verdict, r))
           ELSE \E distractors \in cap_two_results("app", q["verb"]["form"],
                                      q["verb"]["root"], q["verb"]["class"],
                                      q["tense"], q["subject"]["person"],
                                      q["subject"]["number"]) :
                  LET options == <<q["verb"]["form"]>> \o distractors
                  IN  IF insufficient_options(options)
                      THEN answer(r, error_response("404",
                                       "Insufficient options available", r))
                      ELSE \E shuffled \in shuffles(options) :
                             answer(r, [status |-> "200", q |-> r,
                                        correct |-> q["verb"]["form"],
                                        options |-> shuffled])
    /\ UNCHANGED <<db, sentences, conjugations, verbs>>
    /\ LazyUnchanged

NextLazy ==
    \E r \in 1..MaxRequests :
       \/ BeforeRequest(r)
       \/ Connect(r)
       \/ SetDb(r)
       \/ SetCollections(r)
       \/ LoadSentences(r)
       \/ LoadConjugations(r)
       \/ LoadVerbs(r)
       \/ HandlerRead(r)
       \/ HandlerAnswer(r)

SpecLazy == InitLazy /\ [][NextLazy]_vars

-----------------------------------------------------------------------------
(* Properties of the lazy initialisation, checked under SpecLazy *)

\* C21: no step of a request, its before_request hook included, changes the
\* module-level sentences, conjugations and verbs.
C21_TablesReadOnly == [][UNCHANGED <<sentences, conjugations, verbs>>]_vars

TablesLoaded ==
    /\ sentences = load_sentences(store.sentences)
    /\ conjugations = load_conjugations(store.conjugations)
    /\ verbs = load_verbs("app", store.verbs)

\* C26: a handler that starts after its hook while db is set sees the loaded
\* tables.
C26_HandlerSeesLoadedTables ==
    \A r \in DOMAIN requests :
       (requests[r].at = "handler" /\ db.connected) => TablesLoaded

-----------------------------------------------------------------------------
(* app.py: GET /api/generate-matching-game *)

\* the names bound by the import statements of app.py:1-17
imported_names ==
    {"sys", "os", "Path", "logging", "load_dotenv", "random", "re", "Flask",
     "jsonify", "request", "Response", "CORS", "MongoClient",
     "ConnectionFailure", "ServerSelectionTimeoutError", "dumps", "ObjectId",
     "bcrypt", "jwt", "datetime", "timedelta", "time"}

NameError == [raised |-> "NameError"]

\* variant: the module json is imported
json_load_imported(content) == [raised |-> "none", data |-> content]

\* json.load(f) at app.py:414: the name json is looked up first
json_load(content) ==
    IF "json" \in imported_names THEN [raised |-> "none", data |-> content]
    ELSE NameError

\* the three pairs of one subject with the verb of PairPool
complete_pairs(subj_root) ==
    [i \in 1..3 |->
        pair_record(subj_root, <<"g", "m", HALANT>>, "present", Numbers[i],
                    subj_root \o <<"s", Numbers[i]>>,
                    <<"g", "m", Numbers[i]>>)]

\* lists that mtc_gen.py can write to matching_game.json
GeneratedLists ==
    { create_matching_game_data(ps) :
        ps \in { <<>>, complete_pairs(<<"b", "aa", "l">>),
                 complete_pairs(<<"b", "aa", "l">>)
                    \o complete_pairs(<<"m", "u", "n", "i">>) } }

\* documents of the matching_game collection before a request
PriorEntries ==
    { create_matching_game_data(complete_pairs(r))[1] :
        r \in { <<"b", "aa", "l">>, <<"k", "v", "i">>, <<"n", "r">>,
                <<"g", "j">> } }

\* a process with or without its collection handles, and a matching_game
\* collection of up to two documents
InitRegen ==
    /\ conjugations = ConjFull
    /\ declension_map = DeclFull
    /\ GeneratorIdle
    /\ verbs = <<>>
    /\ sentences = <<>>
    /\ response = None
    /\ call = NoCall
    /\ requests = <<>>
    /\ db \in { NoDb, [connected |-> TRUE, collections |-> TRUE] }
    /\ store \in { [EmptyStore EXCEPT !.matching_game = docs] :
                     docs \in lists_up_to(PriorEntries, 2) }

json_reply(code, status, message) ==
    [code |-> code, status |-> status, message |-> message]

\* the handler for one request: whether the dataset directory exists, the
\* exit status of mtc_gen.py, the list it wrote and whether insert_many
\* reaches the server are drawn per request (app.py:401-423)
GenerateMatchingGame ==
    /\ \E dataset_exists \in BOOLEAN, exit_status \in {0, 1},
          generated \in GeneratedLists, insert_ok \in BOOLEAN :
          /\ call' = [fn |-> "generate_matching_game",
                      dataset_exists |-> dataset_exists,
                      exit_status |-> exit_status, generated |-> generated,
                      insert_ok |-> insert_ok,
                      before |-> store.matching_game]
          /\ IF ~db.collections
             THEN /\ response' = json_reply("503", "error",
                                            "No MongoDB connection")
                  /\ store' = store
             ELSE IF ~dataset_exists
             THEN /\ response' = json_reply("404", "error",
                                            "Dataset directory not found")
                  /\ store' = store
             ELSE IF exit_status # 0
             THEN /\ response' = json_reply("500", "error",
                                    "Failed to generate matching game data")
                  /\ store' = store
             ELSE LET loaded == json_load(generated)
                  IN  IF loaded.raised # "none"
                      THEN /\ response' = json_reply("500", "error",
                                             "Error running mtc_gen.py")
                           /\ store' = store
                      ELSE IF loaded.data = <<>> \/ ~insert_ok
                      \* delete_many ran, insert_many raised
                      THEN /\ response' = json_reply("500", "error",
                                             "Error running mtc_gen.py")
                           /\ store' = [store EXCEPT !.matching_game = <<>>]
                      ELSE /\ response' = json_reply("200", "success",
                                 "Matching game data generated and loaded")
                           /\ store' = [store EXCEPT
                                          !.matching_game = loaded.data]
    /\ UNCHANGED <<conjugations, declension_map, heap, nouns, verb, tense,
                   sentence_data, pairs, script, pc, loc, verbs, sentences,
                   db, requests>>

NextRegen == GenerateMatchingGame

SpecRegen == InitRegen /\ [][NextRegen]_vars

-----------------------------------------------------------------------------
(* Properties of /api/generate-matching-game, checked under SpecRegen *)

RegenAnswered == call.fn = "generate_matching_game" /\ response # None

\* C22: after a request whose generator run exited with status 0 (with the
\* collection handle present, a non-empty generated list and a server that
\* accepts the insert), the matching_game collection is exactly the generated
\* list and the response reports success.
C22_ReplaceAll ==
    (/\ RegenAnswered
     /\ db.collections
     /\ call.dataset_exists
     /\ call.exit_status = 0
     /\ call.generated # <<>>
     /\ call.insert_ok)
    => /\ response.status = "success"
       /\ store.matching_game = call.generated

\* C27: after a request answered with an error, the matching_game collection
\* holds the documents it held before the request.
C27_ErrorKeepsCollection ==
    (RegenAnswered /\ response.status = "error")
       => store.matching_game = call.before

\* the generator exited with status 0 on a collection of two documents and
\* the request was answered with an error
C27_Witness ==
    /\ RegenAnswered
    /\ response.status = "error"
    /\ response.code = "500"
    /\ db.collections
    /\ call.dataset_exists
    /\ call.exit_status = 0
    /\ Len(call.before) = 2
    /\ store.matching_game = call.before

-----------------------------------------------------------------------------
(* The two cap-2 copies compared, checked under SpecDistractors *)

\* the asked verb has a document and that document has no override for the
\* asked tense
NoOverride ==
    /\ call.tense \in {"past", "future"}
    /\ \E i \in DOMAIN VerbDocs :
          /\ VerbDocs[i]["root"] = call.root
          /\ VerbDocs[i]["verb_class"] = call.vclass
    /\ (IF call.tense = "past" THEN "past_stem" ELSE "future_stem")
          \notin DOMAIN AskedDoc

\* the loop as it is entered when the stem of the tense is the given one
LoopWithStem(stem) ==
    [distractor_call(call.variant, call.correct_form, call.root, call.vclass,
                     call.tense, call.person, call.number)
       EXCEPT !.at = "loop",
              !.stem = IF endswith_str(stem, halant_literal(call.variant))
                       THEN drop_last(stem) ELSE stem,
              !.remaining = { person_numbers[i] : i \in DOMAIN person_numbers }
                            \ {person_number_key(call.person, call.number)}]

\* C24: for a loaded verb without an override for the asked past or future
\* tense, the cap-2 generate_distractors returns one of the lists it can
\* return for a verb whose override is the bare root.
C24_RootIsFallbackStem ==
    (CapTwoDone /\ NoOverride /\ has_table(call.tense, call.vclass)) =>
        call.result \in loop_results({ LoopWithStem(call.root) })

\* the other one of the two copies
other_copy(variant) == IF variant = "app" THEN "verb_game" ELSE "app"

\* C25: every list returned by one of app.generate_distractors and
\* verb_game.generate_distractors is a list the other copy can return for
\* the same tables and arguments.
C25_CopiesAgree ==
    CapTwoDone =>
        call.result \in cap_two_results(other_copy(call.variant),
                            call.correct_form, call.root, call.vclass,
                            call.tense, call.person, call.number)

-----------------------------------------------------------------------------
(* app.py: POST /api/update-score *)

MaxScore == 2

\* a document of the users collection
user_doc(id, email, score) ==
    [id |-> id, full_name |-> "n", email |-> email, password |-> "hash",
     score |-> score]

\* JSON values of the body's score key
JsonInt(n) == [kind |-> "int", n |-> n]
\* a float given in halves: JsonFloat(3) is 1.5
JsonFloat(halves) == [kind |-> "float", n |-> halves]
JsonTrue == [kind |-> "bool", n |-> 1]
JsonNaN == [kind |-> "nan", n |-> 0]
JsonStr == [kind |-> "str", n |-> 0]
JsonNull == [kind |-> "none", n |-> 0]

\* isinstance(x, (int, float)): bool is a subclass of int
is_number(x) == x.kind \in {"int", "float", "bool", "nan"}

\* x < 0 for a number; every comparison with NaN is false
below_zero(x) == x.kind \in {"int", "float", "bool"} /\ x.n < 0

\* int(x) raises ValueError for NaN
int_raises(x) == x.kind = "nan"

\* int(x): truncation towards zero
to_int(x) ==
    IF x.kind = "float"
    THEN (IF x.n >= 0 THEN x.n \div 2 ELSE 0 - ((0 - x.n) \div 2))
    ELSE x.n

\* ids that ObjectId accepts: u1 and u2 are stored users, u3 is not
ObjectIds == {"u1", "u2", "u3"}

\* tokens: signed with JWT_SECRET and current, signed and expired, or not
\* signed with JWT_SECRET; NoClaim marks a payload without user_id
NoClaim == "no_claim"

Tokens ==
    { [kind |-> k, user_id |-> "u1"] : k \in {"expired", "forged"} }
    \cup { [kind |-> "valid", user_id |-> u] :
             u \in {"u1", "u2", "u3", "bad", NoClaim} }

\* request.headers.get('Authorization')
AuthHeaders ==
    { [scheme |-> "none", token |-> [kind |-> "forged", user_id |-> "u1"]],
      [scheme |-> "Basic", token |-> [kind |-> "valid", user_id |-> "u1"]] }
    \cup { [scheme |-> "Bearer ", token |-> t] : t \in Tokens }

\* the outcome of jwt.decode(token, JWT_SECRET, algorithms=["HS256"])
jwt_decode(token) ==
    IF token.kind = "expired" THEN "ExpiredSignatureError"
    ELSE IF token.kind = "forged" THEN "InvalidTokenError"
    ELSE "payload"

\* variant: the token's user_id is not compared with the body's
owner_mismatch_never(payload_user_id, user_id) == FALSE

\* payload["user_id"] != user_id (app.py:689)
owner_mismatch(payload_user_id, user_id) == payload_user_id # user_id

\* request bodies: invalid JSON, a JSON list, or an object whose user_id and
\* score keys hold the given values (None when absent)
ScoreBodies ==
    { [kind |-> "invalid", user_id |-> "", score |-> JsonNull],
      [kind |-> "list", user_id |-> "", score |-> JsonNull] }
    \cup { [kind |-> "dict", user_id |-> u, score |-> sc] :
             u \in {"", "u1", "u2", "u3", "bad"},
             sc \in { JsonNull, JsonStr, JsonNaN, JsonTrue, JsonInt(0 - 1),
                      JsonInt(0), JsonInt(2), JsonFloat(3),
                      JsonFloat(0 - 1) } }

\* positions of the documents with the given id
users_with_id(users, id) == { i \in DOMAIN users : users[i].id = id }

\* update_one({"_id": id}, {"$inc": {"score": amount}}, upsert=False)
inc_score(users, id, amount) ==
    [i \in DOMAIN users |->
        IF users[i].id = id THEN [users[i] EXCEPT !.score = @ + amount]
        ELSE users[i]]

score_reply(code, body) == [code |-> code, body |-> body]

\* the reply and the users collection after one request (app.py:667-712)
update_score(users, has_collection, body, auth) ==
    LET keep(code, text) == [reply |-> score_reply(code, text), users |-> users]
    IN  IF ~has_collection THEN keep("503", "No MongoDB connection")
        ELSE IF body.kind = "invalid"
        THEN keep("500", "Failed to update score")
        ELSE IF body.kind # "dict"
        THEN keep("400", "No data provided or invalid JSON")
        ELSE IF body.user_id = "" \/ body.score = JsonNull
        THEN keep("400", "Missing user_id or score")
        ELSE IF ~is_number(body.score) \/ below_zero(body.score)
        THEN keep("400", "Score increment must be a non-negative number")
        ELSE IF auth.scheme # "Bearer "
        THEN keep("401", "Authorization header missing or invalid")
        ELSE IF jwt_decode(auth.token) = "ExpiredSignatureError"
        THEN keep("401", "Token expired")
        ELSE IF jwt_decode(auth.token) = "InvalidTokenError"
        THEN keep("401", "Invalid token")
        ELSE IF auth.token.user_id = NoClaim
        THEN keep("500", "Failed to update score")     \* KeyError
        ELSE IF owner_mismatch(auth.token.user_id, body.user_id)
        THEN keep("403", "Unauthorized score update")
        ELSE IF body.user_id \notin ObjectIds
        THEN keep("500", "Failed to update score")     \* InvalidId
        ELSE IF int_raises(body.score)
        THEN keep("500", "Failed to update score")     \* ValueError
        ELSE IF users_with_id(users, body.user_id) = {}
        THEN keep("404", "User not found")
        ELSE [reply |-> score_reply("200", "success"),
              users |-> inc_score(users, body.user_id, to_int(body.score))]

\* two registered users with their scores; the process with or without its
\* collection handles
InitScore ==
    /\ conjugations = ConjFull
    /\ declension_map = DeclFull
    /\ GeneratorIdle
    /\ verbs = <<>>
    /\ sentences = <<>>
    /\ response = None
    /\ call = NoCall
    /\ requests = <<>>
    /\ db \in { NoDb, [connected |-> TRUE, collections |-> TRUE] }
    /\ store \in { [EmptyStore EXCEPT !.users =
                       << user_doc("u1", "a", s1), user_doc("u2", "b", s2) >>] :
                     s1 \in 0..1, s2 \in 0..1 }

\* one request handled; scores stay within MaxScore
UpdateScore ==
    /\ \E body \in ScoreBodies, auth \in AuthHeaders :
          LET out == update_score(store.users, db.collections, body, auth)
          IN  /\ \A i \in DOMAIN out.users : out.users[i].score <= MaxScore
              /\ store' = [store EXCEPT !.users = out.users]
              /\ response' = out.reply
              /\ call' = [fn |-> "update_score", body |-> body, auth |-> auth,
                          before |-> store.users]
    /\ UNCHANGED <<conjugations, declension_map, heap, nouns, verb, tense,
                   sentence_data, pairs, script, pc, loc, verbs, sentences,
                   db, requests>>

NextScore == UpdateScore

SpecScore == InitScore /\ [][NextScore]_vars

-----------------------------------------------------------------------------
(* Properties of /api/update-score, checked under SpecScore *)

\* the request just handled carried a current token signed with JWT_SECRET
\* whose user_id is the body's user_id
OwnerRequest(id) ==
    /\ call'.fn = "update_score"
    /\ call'.auth.scheme = "Bearer "
    /\ call'.auth.token.kind = "valid"
    /\ call'.auth.token.user_id = id
    /\ call'.body.user_id = id

ScoreStep ==
    /\ DOMAIN store'.users = DOMAIN store.users
    /\ \A i \in DOMAIN store.users :
          /\ store'.users[i].id = store.users[i].id
          /\ store'.users[i].score >= store.users[i].score
          /\ store'.users[i].score # store.users[i].score
                => /\ OwnerRequest(store.users[i].id)
                   /\ response'.code = "200"
    /\ response'.code \in {"400", "401", "403", "404"}
          => store'.users = store.users

\* C29: in every step a stored score changes only by a request whose valid
\* token carries the user_id of the body, and only for that user; the change
\* is an increase by a non-negative integer; a request answered 400, 401,
\* 403 or 404 changes no score.
C29_ScoreIntegrity == [][ScoreStep]_vars

\* the owner's request with score 1.5 was answered 200 and added 1 to the
\* owner's score only
C29_Witness ==
    /\ call.fn = "update_score"
    /\ response.code = "200"
    /\ call.body.user_id = "u2"
    /\ call.body.score = JsonFloat(3)
    /\ store.users[2].score = call.before[2].score + 1
    /\ store.users[1].score = call.before[1].score

-----------------------------------------------------------------------------
(* app.py: POST /api/register, handled by concurrent threads *)

\* a request thread that has not read its body yet
NewRegister == [at |-> "new", email |-> ""]

\* bodies: no JSON object, an object with an empty field, or a complete one
RegisterBodies ==
    { [kind |-> "none", full_name |-> "", email |-> "", password |-> ""],
      [kind |-> "dict", full_name |-> "n", email |-> "a", password |-> ""] }
    \cup { [kind |-> "dict", full_name |-> "n", email |-> e,
            password |-> "p"] : e \in {"a", "b", "c"} }

\* users_collection.find_one({"email": email}) is truthy
find_one_email(users, email) == \E i \in DOMAIN users : users[i].email = email

\* insert_one(user): the server assigns a fresh _id
insert_one(users, email) ==
    Append(users, user_doc(Len(users) + 1, email, 0))

register_reply(r, code, message) == [q |-> r, code |-> code, message |-> message]

\* the users collection holds one user or none; every thread is new
InitRegister ==
    /\ conjugations = ConjFull
    /\ declension_map = DeclFull
    /\ GeneratorIdle
    /\ verbs = <<>>
    /\ sentences = <<>>
    /\ response = None
    /\ call = NoCall
    /\ db = [connected |-> TRUE, collections |-> TRUE]
    /\ store \in { EmptyStore,
                   [EmptyStore EXCEPT !.users = << user_doc(1, "a", 0) >>] }
    /\ requests = [r \in 1..MaxRequests |-> NewRegister]

RegisterUnchanged ==
    UNCHANGED <<conjugations, declension_map, heap, nouns, verb, tense,
                sentence_data, pairs, script, pc, loc, call, verbs, sentences,
                db>>

\* the body checks and find_one (app.py:551-563)
RegisterCheck(r) ==
    /\ requests[r].at = "new"
    /\ \E body \in RegisterBodies :
          IF body.kind # "dict"
          THEN /\ response' = register_reply(r, "400",
                                  "No data provided or invalid JSON")
               /\ requests' = requests
          ELSE IF body.full_name = "" \/ body.email = "" \/ body.password = ""
          THEN /\ response' = register_reply(r, "400",
                                  "Missing full_name, email, or password")
               /\ requests' = requests
          ELSE IF find_one_email(store.users, body.email)
          THEN /\ response' = register_reply(r, "400",
                                  "Email already registered")
               /\ requests' = requests
          ELSE /\ response' = response
               /\ requests' = [requests EXCEPT
                                 ![r] = [at |-> "insert", email |-> body.email]]
    /\ store' = store
    /\ RegisterUnchanged

\* the hash, insert_one and the reply (app.py:564-590)
RegisterInsert(r) ==
    /\ requests[r].at = "insert"
    /\ store' = [store EXCEPT !.users = insert_one(@, requests[r].email)]
    /\ response' = register_reply(r, "201", "User registered successfully")
    /\ requests' = [requests EXCEPT ![r] = NewRegister]
    /\ RegisterUnchanged

NextRegister ==
    \E r \in 1..MaxRequests : RegisterCheck(r) \/ RegisterInsert(r)

SpecRegister == InitRegister /\ [][NextRegister]_vars

-----------------------------------------------------------------------------
(* Properties of /api/register, checked under SpecRegister *)

\* C30: under every interleaving of register requests the users collection
\* never holds two user records with the same email.
C30_EmailUnique ==
    \A i, j \in DOMAIN store.users :
       i # j => store.users[i].email # store.users[j].email

====
